---- MODULE Spec2Model ----
(***************************************************************************)
(* Model of scripts/rocAnalysis.py: the ROC statistics derived from a      *)
(* table of hit counts per level of sequence identity.                     *)
(*                                                                         *)
(* Python floats are modelled as exact rationals.  A rate stored in a      *)
(* frequency list is a reduced fraction [n, d] with d > 0.  Values         *)
(* computed from rates are multi-limb integers counting a fixed unit       *)
(* 1/Unit, which every quotient the program forms is a multiple of; they   *)
(* do not fit in a machine word.                                           *)
(***************************************************************************)
EXTENDS Integers, Sequences, FiniteSets, TLC

----------------------------------------------------------------------------
(* Bounds of the model.                                                    *)

\* at most this many levels of a hit table carry a non-zero count
MaxNonZero == 1

\* at most this many calls of areaUnderCurve on one frequencies object
MaxAucCalls == 2

\* a curve handed to areaUnderCurve directly has at most this many points
MaxCurveLen == 3

\* and its rates are the thirds 0/3 .. MaxRateNum/3
MaxRateNum == 4

\* records in the file countHits reads
MaxRecords == 2

\* schemes in the mapping areaUnderCurveIndex ranks
MaxRanked == 3

\* the longest aligned strings of the generated alignments
MaxSeqLen == 3

\* the most alignments of a record distancePlot is called with
MaxAlignments == 2

----------------------------------------------------------------------------
(* Exact arithmetic.                                                       *)

Abs(n) == IF n < 0 THEN -n ELSE n

RECURSIVE Gcd(_, _)
Gcd(a, b) == IF b = 0 THEN a ELSE Gcd(b, a % b)

\* a reduced fraction n/d, d > 0
Rat(n, d) ==
    LET g == Gcd(Abs(n), Abs(d))
        s == IF d < 0 THEN -1 ELSE 1
    IN  [n |-> s * (n \div g), d |-> s * (d \div g)]

Zero == Rat(0, 1)
One == Rat(1, 1)

\* multi-limb naturals: little-endian sequences of limbs below Base, no
\* leading zero limb; <<>> is zero
Base == 10 * 1000

RECURSIVE NatToBig(_)
NatToBig(n) == IF n = 0 THEN <<>> ELSE <<n % Base>> \o NatToBig(n \div Base)

RECURSIVE Strip(_)
Strip(a) ==
    IF a = <<>> THEN <<>>
    ELSE IF a[Len(a)] = 0 THEN Strip(SubSeq(a, 1, Len(a) - 1))
    ELSE a

RECURSIVE BigAddC(_, _, _)
BigAddC(a, b, c) ==
    IF a = <<>> /\ b = <<>> THEN (IF c = 0 THEN <<>> ELSE <<c>>)
    ELSE LET x == IF a = <<>> THEN 0 ELSE Head(a)
             y == IF b = <<>> THEN 0 ELSE Head(b)
             s == x + y + c
         IN  <<s % Base>> \o BigAddC(IF a = <<>> THEN <<>> ELSE Tail(a),
                                     IF b = <<>> THEN <<>> ELSE Tail(b),
                                     s \div Base)

BigAdd(a, b) == BigAddC(a, b, 0)

\* a - b for a >= b, before stripping
RECURSIVE BigSubC(_, _, _)
BigSubC(a, b, c) ==
    IF a = <<>> THEN <<>>
    ELSE LET y == IF b = <<>> THEN 0 ELSE Head(b)
             s == Head(a) - y - c
         IN  <<IF s < 0 THEN s + Base ELSE s>>
             \o BigSubC(Tail(a), IF b = <<>> THEN <<>> ELSE Tail(b),
                        IF s < 0 THEN 1 ELSE 0)

BigSub(a, b) == Strip(BigSubC(a, b, 0))

\* -1, 0, 1 as a < b, a = b, a > b
RECURSIVE BigCmpTop(_, _, _)
BigCmpTop(a, b, i) ==
    IF i = 0 THEN 0
    ELSE IF a[i] < b[i] THEN -1
    ELSE IF a[i] > b[i] THEN 1
    ELSE BigCmpTop(a, b, i - 1)

BigCmp(a, b) ==
    IF Len(a) < Len(b) THEN -1
    ELSE IF Len(a) > Len(b) THEN 1
    ELSE BigCmpTop(a, b, Len(a))

\* a * k for a limb k < Base
RECURSIVE BigMulLimb(_, _, _)
BigMulLimb(a, k, c) ==
    IF a = <<>> THEN NatToBig(c)
    ELSE LET p == Head(a) * k + c
         IN  <<p % Base>> \o BigMulLimb(Tail(a), k, p \div Base)

RECURSIVE BigMul(_, _)
BigMul(a, b) ==
    IF a = <<>> \/ b = <<>> THEN <<>>
    ELSE BigAdd(Strip(BigMulLimb(a, Head(b), 0)),
                IF Tail(b) = <<>> THEN <<>> ELSE <<0>> \o BigMul(a, Tail(b)))

\* a mod k and a div k for a small k (k * Base fits in a machine word)
RECURSIVE BigModSmall(_, _)
BigModSmall(a, k) ==
    IF a = <<>> THEN 0
    ELSE (BigModSmall(Tail(a), k) * Base + Head(a)) % k

RECURSIVE BigDivSmallRaw(_, _)
BigDivSmallRaw(a, k) ==
    IF a = <<>> THEN <<>>
    ELSE LET r == BigModSmall(Tail(a), k)
         IN  <<(r * Base + Head(a)) \div k>> \o BigDivSmallRaw(Tail(a), k)

BigDivSmall(a, k) == Strip(BigDivSmallRaw(a, k))

\* signed multi-limb integers [s, m]: sign s in {-1, 0, 1}, magnitude m
Signed(s, m) == IF m = <<>> THEN [s |-> 0, m |-> <<>>] ELSE [s |-> s, m |-> m]

SignedAdd(a, b) ==
    IF a.s = 0 THEN b
    ELSE IF b.s = 0 THEN a
    ELSE IF a.s = b.s THEN Signed(a.s, BigAdd(a.m, b.m))
    ELSE LET c == BigCmp(a.m, b.m)
         IN  IF c = 0 THEN Signed(0, <<>>)
             ELSE IF c > 0 THEN Signed(a.s, BigSub(a.m, b.m))
             ELSE Signed(b.s, BigSub(b.m, a.m))

SignedNeg(a) == Signed(-a.s, a.m)

SignedMul(a, b) == Signed(a.s * b.s, BigMul(a.m, b.m))

SignedCmp(a, b) ==
    IF a.s # b.s THEN (IF a.s < b.s THEN -1 ELSE 1)
    ELSE IF a.s = 0 THEN 0
    ELSE a.s * BigCmp(a.m, b.m)

IntToSigned(n) ==
    Signed(IF n < 0 THEN -1 ELSE 1, NatToBig(Abs(n)))

----------------------------------------------------------------------------
(* Python floats: IEEE 754 doubles, s * m * 2^e with a magnitude m of at   *)
(* most 53 bits, every operation rounded to nearest, ties to even.         *)

\* 2^n, by squaring
RECURSIVE Pow2(_)
Pow2(n) ==
    IF n < 13 THEN NatToBig(2 ^ n)
    ELSE LET h == Pow2(n \div 2)
         IN  IF n % 2 = 0 THEN BigMul(h, h) ELSE BigMulLimb(BigMul(h, h), 2, 0)

\* the first magnitude that does not fit the 53 bits of a double
Mantissa == Pow2(53)

\* the least u >= 0 with a * 2^u >= b, and the greatest t >= 0 with
\* b * 2^t <= a, for positive integers
RECURSIVE ShiftUp(_, _)
ShiftUp(a, b) == IF a >= b THEN 0 ELSE 1 + ShiftUp(2 * a, b)

RECURSIVE ShiftDown(_, _)
ShiftDown(a, b) == IF 2 * b > a THEN 0 ELSE 1 + ShiftDown(a, 2 * b)

BigOdd(m) == m # <<>> /\ Head(m) % 2 = 1

\* m * 2^e, followed by the bit guard and, if sticky, by further non-zero
\* bits, rounded to 53 bits
RECURSIVE RoundShift(_, _, _, _)
RoundShift(m, e, guard, sticky) ==
    IF BigCmp(m, Mantissa) < 0
    THEN IF guard = 1 /\ (sticky \/ BigOdd(m))
         THEN [m |-> BigAdd(m, <<1>>), e |-> e]
         ELSE [m |-> m, e |-> e]
    ELSE RoundShift(BigDivSmall(m, 2), e + 1, BigModSmall(m, 2),
                    sticky \/ guard = 1)

Double(s, r) == IF r.m = <<>> THEN [s |-> 0, m |-> <<>>, e |-> 0]
                ELSE [s |-> s, m |-> r.m, e |-> r.e]

\* float(a) / float(b) for integers a and b, b > 0: the quotient is cut at
\* a scale k that leaves it 55 bits, and the two bits too many are rounded
\* away together with what the cut left over
DoubleDiv(a, b) ==
    IF a = 0 THEN [s |-> 0, m |-> <<>>, e |-> 0]
    ELSE LET k == 54 + ShiftUp(Abs(a), b) - ShiftDown(Abs(a), b)
             n == BigMul(NatToBig(Abs(a)), Pow2(k))
         IN  Double(IF a < 0 THEN -1 ELSE 1,
                    RoundShift(BigDivSmall(n, b), -k, 0, BigModSmall(n, b) # 0))

\* x * k for a double x and a positive integer k
DoubleMulInt(x, k) ==
    Double(x.s, RoundShift(BigMul(x.m, NatToBig(k)), x.e, 0, FALSE))

\* the double x as a signed count of 2^e, e <= x.e
DoubleAt(x, e) == Signed(x.s, BigMul(x.m, Pow2(x.e - e)))

\* x + y
DoubleAdd(x, y) ==
    LET e == IF x.e < y.e THEN x.e ELSE y.e
        sum == SignedAdd(DoubleAt(x, e), DoubleAt(y, e))
    IN  Double(sum.s, RoundShift(sum.m, e, 0, FALSE))

\* x < y, x = y, x > y: -1, 0, 1
DoubleCmp(x, y) ==
    LET e == IF x.e < y.e THEN x.e ELSE y.e
    IN  SignedCmp(DoubleAt(x, e), DoubleAt(y, e))

\* the double of an integer
DoubleOfInt(n) == DoubleDiv(n, 1)

----------------------------------------------------------------------------
(* The program's data.                                                     *)

\* the levels of sequence identity, most stringent first
level == <<100, 99, 95, 90, 85, 80, 75, 70, 65, 60, 55, 50, 45, 40, 35, 30,
           25, 20, 15, 10, 5, 0>>

\* the number of reads of known identity at each level
Population == 594

\* the number of levels the negative population is counted over
NLevels == 22

\* Python's str() of a non-negative integer
Digit == <<"0", "1", "2", "3", "4", "5", "6", "7", "8", "9">>

RECURSIVE str(_)
str(n) == IF n < 10 THEN Digit[n + 1] ELSE str(n \div 10) \o Digit[(n % 10) + 1]

\* the keys of readsPerLevel
LevelKeys == {str(level[k]) : k \in 1..Len(level)}

\* names of scoring schemes, and the orders a dict may iterate over them
SchemeNames == {"blastn", "megablast"}

\* the levels whose count may be non-zero in the tables explored: the two
\* most stringent ones, one in the middle and the least stringent one
ProbeKeys == {"100", "99", "50", "0"}

\* the non-zero counts explored: all of the reads of a level, and more hits
\* than a level has reads
SampleCounts == {594, 597}

\* a Python list holding the values f[1], ..., f[Len(f)]
List(f) == f \o <<>>

RECURSIVE Sum(_, _, _)
Sum(s, lo, hi) == IF lo > hi THEN 0 ELSE s[lo] + Sum(s, lo + 1, hi)

\* the table countHits starts from: every level present with count 0
readsPerLevel == [k \in LevelKeys |-> 0]

\* mappings of the schemes S to hit tables as countHits returns them (every
\* level present, counts >= 0) with at most n non-zero counts in all
RECURSIVE HitDicts(_, _)
HitDicts(S, n) ==
    IF n = 0 THEN {[s \in S |-> readsPerLevel]}
    ELSE LET fewer == HitDicts(S, n - 1)
         IN  fewer \cup {[hd EXCEPT ![s][k] = c] :
                            hd \in fewer, s \in S, k \in ProbeKeys, c \in SampleCounts}

----------------------------------------------------------------------------
(* calculateFrequencies                                                    *)

\* float(a)/float(b); a zero divisor raises ZeroDivisionError
Divides(b) == b # 0

\* the specificity of a zero divisor set to 1, as 1 - fpr would give
Appended_SpcOneOnZero(res, tps, fps, fns, tns) ==
    LET n == Len(res)
    IN  [fprs |-> List([k \in 1..n |-> IF Divides(fps[k] + tns[k])
                                       THEN Rat(fps[k], fps[k] + tns[k]) ELSE Zero]),
         tprs |-> List([k \in 1..n |-> Rat(tps[k], tps[k] + fns[k])]),
         spcs |-> List([k \in 1..n |-> IF Divides(fps[k] + tns[k])
                                       THEN Rat(tns[k], fps[k] + tns[k]) ELSE One]),
         tps  |-> tps,
         tns  |-> tns,
         fps  |-> fps,
         fns  |-> fns,
         raw  |-> res]

\* the rates of a zero divisor set to 1/2 each, so that they add up to 1
Appended_HalvesOnZero(res, tps, fps, fns, tns) ==
    LET n == Len(res)
    IN  [fprs |-> List([k \in 1..n |-> IF Divides(fps[k] + tns[k])
                                       THEN Rat(fps[k], fps[k] + tns[k]) ELSE Rat(1, 2)]),
         tprs |-> List([k \in 1..n |-> Rat(tps[k], tps[k] + fns[k])]),
         spcs |-> List([k \in 1..n |-> IF Divides(fps[k] + tns[k])
                                       THEN Rat(tns[k], fps[k] + tns[k]) ELSE Rat(1, 2)]),
         tps  |-> tps,
         tns  |-> tns,
         fps  |-> fps,
         fns  |-> fns,
         raw  |-> res]

\* the lists appended to in one pass of the second loop, from the counts
\* tp, fp, fn and tn of every index
Appended(res, tps, fps, fns, tns) ==
    LET n == Len(res)
    IN  [fprs |-> List([k \in 1..n |-> IF Divides(fps[k] + tns[k])
                                       THEN Rat(fps[k], fps[k] + tns[k]) ELSE Zero]),
         tprs |-> List([k \in 1..n |-> Rat(tps[k], tps[k] + fns[k])]),
         spcs |-> List([k \in 1..n |-> IF Divides(fps[k] + tns[k])
                                       THEN Rat(tns[k], fps[k] + tns[k]) ELSE Zero]),
         tps  |-> tps,
         tns  |-> tns,
         fps  |-> fps,
         fns  |-> fns,
         raw  |-> res]

\* slips in the counts of one index
SchemeFrequencies_FnOneLevelMore(res) ==
    LET n   == Len(res)
        tps == List([k \in 1..n |-> Sum(res, 1, k)])
        fps == List([k \in 1..n |-> Sum(res, k + 1, n)])
        fns == List([k \in 1..n |-> (Population * (k + 1)) - tps[k]])
        tns == List([k \in 1..n |-> Population * (NLevels - k) - fps[k]])
    IN  Appended(res, tps, fps, fns, tns)

SchemeFrequencies_TpFpSwapped(res) ==
    LET n   == Len(res)
        tps == List([k \in 1..n |-> Sum(res, k + 1, n)])
        fps == List([k \in 1..n |-> Sum(res, 1, k)])
        fns == List([k \in 1..n |-> (Population * k) - tps[k]])
        tns == List([k \in 1..n |-> Population * (NLevels - k) - fps[k]])
    IN  Appended(res, tps, fps, fns, tns)

SchemeFrequencies_TpExclusive(res) ==
    LET n   == Len(res)
        tps == List([k \in 1..n |-> Sum(res, 1, k - 1)])
        fps == List([k \in 1..n |-> Sum(res, k, n)])
        fns == List([k \in 1..n |-> (Population * k) - tps[k]])
        tns == List([k \in 1..n |-> Population * (NLevels - k) - fps[k]])
    IN  Appended(res, tps, fps, fns, tns)

\* the statistics of one scoring scheme (the body of the second loop); k is
\* the loop's i + 1
SchemeFrequencies(res) ==
    LET n   == Len(res)
        tps == List([k \in 1..n |-> Sum(res, 1, k)])
        fps == List([k \in 1..n |-> Sum(res, k + 1, n)])
        fns == List([k \in 1..n |-> (Population * k) - tps[k]])
        tns == List([k \in 1..n |-> Population * (NLevels - k) - fps[k]])
    IN  Appended(res, tps, fps, fns, tns)

\* the first loop: each scheme's table as a list in the order of level
ListDict(hd) ==
    [s \in DOMAIN hd |-> List([k \in 1..Len(level) |-> hd[s][str(level[k])]])]

calculateFrequencies(hd) ==
    [s \in DOMAIN hd |-> SchemeFrequencies(ListDict(hd)[s])]

\* every table emptied by the call, as reading the counts with pop would
hitDictAfter_Popped(hd) == [s \in DOMAIN hd |-> [k \in {} |-> 0]]

\* the caller's hitDict after the call: the loops of lines 72-76 only read
\* hitDict[scoringScheme][str(nr)], and every list of the object returned
\* is built by append, raw included, so none of them is an object of hitDict
hitDictAfter(hd) == hd

----------------------------------------------------------------------------
(* Fixed-point values.                                                     *)

RECURSIVE LcmUpTo(_)
LcmUpTo(n) ==
    IF n = 1 THEN 1 ELSE LET l == LcmUpTo(n - 1) IN l * (n \div Gcd(l, n))

LevelLcm == LcmUpTo(NLevels)

\* every divisor the program divides by is Population * k for a k in
\* 1..NLevels, so every rate is a whole number of 1/Unit,
\* Unit = Population * LevelLcm
Unit == BigMul(NatToBig(Population), NatToBig(LevelLcm))

\* Unit / d for a denominator d of a rate
UnitOver(d) ==
    LET g == Gcd(d, Population)
    IN  BigMul(NatToBig(LevelLcm \div (d \div g)), NatToBig(Population \div g))

Exact(r) == LevelLcm % (r.d \div Gcd(r.d, Population)) = 0

\* the rate r as a signed count of 1/Unit
Fix(r) ==
    IF r.n = 0 THEN Signed(0, <<>>)
    ELSE IF r.n = r.d THEN Signed(1, Unit)
    ELSE SignedMul(IntToSigned(r.n), Signed(1, UnitOver(r.d)))

FixOne == Signed(1, Unit)

\* a product of two fixed-point values counts 1/Unit^2
FixOneSquared == Signed(1, BigMul(Unit, Unit))

\* the last position holding the largest value, in place of the first
RECURSIVE IndexOfMax_Last(_, _, _)
IndexOfMax_Last(vals, lo, hi) ==
    IF lo = hi THEN lo
    ELSE LET mid == (lo + hi) \div 2
             l == IndexOfMax_Last(vals, lo, mid)
             r == IndexOfMax_Last(vals, mid + 1, hi)
         IN  IF SignedCmp(vals[r], vals[l]) >= 0 THEN r ELSE l

\* the last position holding the smallest value, in place of the first
RECURSIVE IndexOfMin_Last(_, _, _)
IndexOfMin_Last(vals, lo, hi) ==
    IF lo = hi THEN lo
    ELSE LET mid == (lo + hi) \div 2
             l == IndexOfMin_Last(vals, lo, mid)
             r == IndexOfMin_Last(vals, mid + 1, hi)
         IN  IF SignedCmp(vals[r], vals[l]) <= 0 THEN r ELSE l

\* list.index(max(list)) and list.index(min(list)) within lo..hi: the first
\* position (1-based) holding the largest (smallest) value
RECURSIVE IndexOfMax(_, _, _)
IndexOfMax(vals, lo, hi) ==
    IF lo = hi THEN lo
    ELSE LET mid == (lo + hi) \div 2
             l == IndexOfMax(vals, lo, mid)
             r == IndexOfMax(vals, mid + 1, hi)
         IN  IF SignedCmp(vals[r], vals[l]) > 0 THEN r ELSE l

RECURSIVE IndexOfMin(_, _, _)
IndexOfMin(vals, lo, hi) ==
    IF lo = hi THEN lo
    ELSE LET mid == (lo + hi) \div 2
             l == IndexOfMin(vals, lo, mid)
             r == IndexOfMin(vals, mid + 1, hi)
         IN  IF SignedCmp(vals[r], vals[l]) < 0 THEN r ELSE l

----------------------------------------------------------------------------
(* youdenIndex and f1Index                                                 *)

\* the level of the cutoff appended, level[cutoff], in place of its index
YoudenOfScheme_LevelAsCutoff(f) ==
    LET x == f.spcs
        y == f.tprs
        youdens == List([k \in 1..Len(x) |->
                       SignedAdd(SignedAdd(Fix(x[k]), Fix(y[k])), SignedNeg(FixOne))])
        at == IndexOfMax(youdens, 1, Len(youdens))
    IN  [element |-> <<y[at], f.fprs[at]>>, cutoff |-> level[at]]

\* one scheme of youdenIndex: the coordinates (tpr, fpr) and the 0-based
\* cutoff.  The loop runs over the length of spcs and reads tprs and fprs at
\* the same positions.
YoudenOfScheme(f) ==
    LET x == f.spcs
        y == f.tprs
        youdens == List([k \in 1..Len(x) |->
                       SignedAdd(SignedAdd(Fix(x[k]), Fix(y[k])), SignedNeg(FixOne))])
        at == IndexOfMax(youdens, 1, Len(youdens))
    IN  [element |-> <<y[at], f.fprs[at]>>, cutoff |-> at - 1]

F1OfScheme(f) ==
    LET x == f.spcs
        y == f.tprs
        sq(v) == SignedMul(v, v)
        f1s == List([k \in 1..Len(x) |->
                   SignedAdd(sq(SignedAdd(FixOne, SignedNeg(Fix(x[k])))),
                             sq(SignedAdd(FixOne, SignedNeg(Fix(y[k])))))])
        at == IndexOfMin(f1s, 1, Len(f1s))
    IN  [element |-> <<y[at], f.fprs[at]>>, cutoff |-> at - 1]

\* a point (0, 0) and the cutoff 0 returned when there is no scheme
youdenIndex_DefaultOnEmpty(freqs, ord) ==
    IF ord = <<>> THEN [coords |-> << <<Zero, Zero>> >>, cutoffs |-> <<0>>]
    ELSE LET picked == List([j \in 1..Len(ord) |-> YoudenOfScheme(freqs[ord[j]])])
         IN  [coords  |-> List([j \in 1..Len(ord) |-> picked[j].element]),
              cutoffs |-> List([j \in 1..Len(ord) |-> picked[j].cutoff])]

\* the two lists returned, in the order ord the dict iterates its schemes
youdenIndex(freqs, ord) ==
    LET picked == List([j \in 1..Len(ord) |-> YoudenOfScheme(freqs[ord[j]])])
    IN  [coords  |-> List([j \in 1..Len(ord) |-> picked[j].element]),
         cutoffs |-> List([j \in 1..Len(ord) |-> picked[j].cutoff])]

f1Index(freqs, ord) ==
    LET picked == List([j \in 1..Len(ord) |-> F1OfScheme(freqs[ord[j]])])
    IN  [coords  |-> List([j \in 1..Len(ord) |-> picked[j].element]),
         cutoffs |-> List([j \in 1..Len(ord) |-> picked[j].cutoff])]

----------------------------------------------------------------------------
(* areaUnderCurve                                                          *)

\* sum over the segments k..k+1, lo <= k <= hi, of
\* (xs[k+1]-xs[k]) * (ys[k+1]+ys[k])
RECURSIVE SegmentSum(_, _, _, _)
SegmentSum(ys, xs, lo, hi) ==
    IF lo > hi THEN Signed(0, <<>>)
    ELSE IF lo = hi
         THEN SignedMul(SignedAdd(xs[lo + 1], SignedNeg(xs[lo])),
                        SignedAdd(ys[lo + 1], ys[lo]))
    ELSE LET mid == (lo + hi) \div 2
         IN  SignedAdd(SegmentSum(ys, xs, lo, mid), SegmentSum(ys, xs, mid + 1, hi))

\* the rectangle rule: d * y[:-1] twice, in place of d * (y[1:] + y[:-1])
trapz_LeftRule(y, x) ==
    LET xs == List([k \in 1..Len(x) |-> Fix(x[k])])
        ys == List([k \in 1..Len(y) |-> IF k = 1 THEN Fix(y[1]) ELSE Fix(y[k - 1])])
    IN  [num |-> SegmentSum(ys, xs, 1, Len(x) - 1),
         den |-> BigMul(NatToBig(2), FixOneSquared.m)]

\* integrate.trapz(y, x): the trapezoidal rule, sum of d * (y[1:] + y[:-1]) / 2
\* with d = diff(x), as a fraction num/den
trapz(y, x) ==
    LET xs == List([k \in 1..Len(x) |-> Fix(x[k])])
        ys == List([k \in 1..Len(y) |-> Fix(y[k])])
    IN  [num |-> SegmentSum(ys, xs, 1, Len(x) - 1),
         den |-> BigMul(NatToBig(2), FixOneSquared.m)]

\* the curve without its initial point (1, 1)
Normalize_NoStart(rates) == rates \o <<Zero>>

\* the normalised curve: append 0.0, insert 1.0 at the front
Normalize(rates) == <<One>> \o rates \o <<Zero>>

\* the areas without the change of sign
areaUnderCurve_NotNegated(freqs) ==
    [s \in DOMAIN freqs |->
        trapz(Normalize(freqs[s].tprs), Normalize(freqs[s].fprs))]

\* the areas returned: y_int * -1 for every scheme
areaUnderCurve(freqs) ==
    [s \in DOMAIN freqs |->
        LET y_int == trapz(Normalize(freqs[s].tprs), Normalize(freqs[s].fprs))
        IN  [num |-> SignedNeg(y_int.num), den |-> y_int.den]]

\* the caller's lists left normalised and reversed in place (x ascending)
Reverse(q) == [k \in 1..Len(q) |-> q[Len(q) + 1 - k]]

AfterAreaUnderCurve_Reversing(freqs) ==
    [s \in DOMAIN freqs |->
        [freqs[s] EXCEPT !.fprs = Reverse(Normalize(@)), !.tprs = Reverse(Normalize(@))]]

\* the frequencies object after the call: copy.copy copies the outer dict
\* only, so x and y are the caller's own lists and the appends and inserts
\* change them
AfterAreaUnderCurve(freqs) ==
    [s \in DOMAIN freqs |->
        [freqs[s] EXCEPT !.fprs = Normalize(@), !.tprs = Normalize(@)]]

AreaEq(a, b) ==
    SignedCmp(SignedMul(a.num, Signed(1, b.den)), SignedMul(b.num, Signed(1, a.den))) = 0

\* comparisons of an area with a fraction n/d of small numbers
AreaCmp(area, n, d) ==
    SignedCmp(SignedMul(area.num, IntToSigned(d)),
              SignedMul(IntToSigned(n), Signed(1, area.den)))

----------------------------------------------------------------------------
(* areaUnderCurveIndex                                                     *)

\* a < b, a = b, a > b for two areas: -1, 0, 1
AreaOrder(a, b) ==
    SignedCmp(SignedMul(a.num, Signed(1, b.den)), SignedMul(b.num, Signed(1, a.den)))

\* one item put into a list sorted by area, behind every item that is not
\* larger: equal items stay in the order they came in
Inserted(q, name, integrated) ==
    LET k == Cardinality({i \in 1..Len(q) :
                             AreaOrder(integrated[q[i]], integrated[name]) <= 0})
    IN  SubSeq(q, 1, k) \o <<name>> \o SubSeq(q, k + 1, Len(q))

\* one item put in front of every item that is not larger
Inserted_Descending(q, name, integrated) ==
    LET k == Cardinality({i \in 1..Len(q) :
                             AreaOrder(integrated[q[i]], integrated[name]) >= 0})
    IN  SubSeq(q, 1, k) \o <<name>> \o SubSeq(q, k + 1, Len(q))

\* sorted(items, key=operator.itemgetter(1)): the first n names of the
\* iteration order ord in ascending order of area, a stable sort
RECURSIVE SortedByArea(_, _, _)
SortedByArea(ord, n, integrated) ==
    IF n = 0 THEN <<>>
    ELSE Inserted(SortedByArea(ord, n - 1, integrated), ord[n], integrated)

\* sorted(..., reverse=True): a stable sort in descending order
RECURSIVE SortedByArea_Descending(_, _, _)
SortedByArea_Descending(ord, n, integrated) ==
    IF n = 0 THEN <<>>
    ELSE Inserted_Descending(SortedByArea_Descending(ord, n - 1, integrated),
                             ord[n], integrated)

\* the rank of every name in the list sortedIntegrated
Indexes(sortedIntegrated) ==
    [name \in {sortedIntegrated[i] : i \in 1..Len(sortedIntegrated)} |->
        (CHOOSE i \in 1..Len(sortedIntegrated) : sortedIntegrated[i] = name) - 1]

\* the list left in ascending order, the [::-1] lost
areaUnderCurveIndex_Ascending(integrated, ord) ==
    Indexes(SortedByArea(ord, Len(ord), integrated))

\* the list sorted with reverse=True in place of sorted and then reversed
areaUnderCurveIndex_StableDescending(integrated, ord) ==
    Indexes(SortedByArea_Descending(ord, Len(ord), integrated))

\* the dict indexes, for the order ord the dict integrated iterates in
areaUnderCurveIndex(integrated, ord) ==
    Indexes(List(Reverse(SortedByArea(ord, Len(ord), integrated))))

----------------------------------------------------------------------------
(* The state of a caller that builds the frequencies of its hit tables     *)
(* once and then hands the same object to the three consumers.             *)

VARIABLES
    hitDict,        \* scheme -> level key -> count, the input
    order,          \* the order in which the dicts iterate over the schemes
    pc,             \* "start" before calculateFrequencies, "ready" after
    frequencies,    \* the object calculateFrequencies returned
    ret,            \* what the last call of a consumer returned
    areas,          \* what the calls of areaUnderCurve returned, oldest first
    blastFile,      \* countHits: the file name, a sequence of characters
    cutoff,         \* countHits: the bit score cutoff
    records,        \* countHits: the records the reader yields, in order
    consumed,       \* countHits: how many records the loop has taken
    reads,          \* countHits: the dict readsPerLevel
    title,          \* countHits: the title cut out of the file name
    hpc,            \* countHits: "start", "loop", "returned" or the error raised
    call,           \* nicola.py: the function called last and its arguments
    result          \* nicola.py: what that call returned or raised

rocVars == <<hitDict, order, pc, frequencies, ret, areas>>

hitVars == <<blastFile, cutoff, records, consumed, reads, title, hpc>>

nicolaVars == <<call, result>>

vars == <<hitDict, order, pc, frequencies, ret, areas,
          blastFile, cutoff, records, consumed, reads, title, hpc,
          call, result>>

\* no call of countHits is under way
NoCountHits ==
    /\ blastFile = <<>>
    /\ cutoff = 0
    /\ records = <<>>
    /\ consumed = 0
    /\ reads = readsPerLevel
    /\ title = ""
    /\ hpc = "idle"

\* no function of nicola.py has been called
NoNicola ==
    /\ call = [fn |-> "none"]
    /\ result = [raised |-> "none"]

\* the orders a dict over the schemes S may iterate in
Orders(S) ==
    {q \in [1..Cardinality(S) -> S] : \A i, j \in DOMAIN q : q[i] = q[j] => i = j}

Init ==
    /\ \E S \in SUBSET SchemeNames :
          /\ hitDict \in HitDicts(S, MaxNonZero)
          /\ order \in Orders(S)
    /\ pc = "start"
    /\ frequencies = [none |-> TRUE]
    /\ ret = [fn |-> "none"]
    /\ areas = <<>>
    /\ NoCountHits
    /\ NoNicola

CalculateFrequencies ==
    /\ pc = "start"
    /\ frequencies' = calculateFrequencies(hitDict)
    /\ pc' = "ready"
    /\ hitDict' = hitDictAfter(hitDict)
    /\ UNCHANGED <<order, ret, areas>>
    /\ UNCHANGED hitVars
    /\ UNCHANGED nicolaVars

YoudenIndex ==
    /\ pc = "ready"
    /\ LET r == youdenIndex(frequencies, order)
       IN  ret' = [fn |-> "youdenIndex", coords |-> r.coords, cutoffs |-> r.cutoffs]
    /\ UNCHANGED <<hitDict, order, pc, frequencies, areas>>
    /\ UNCHANGED hitVars
    /\ UNCHANGED nicolaVars

F1Index ==
    /\ pc = "ready"
    /\ LET r == f1Index(frequencies, order)
       IN  ret' = [fn |-> "f1Index", coords |-> r.coords, cutoffs |-> r.cutoffs]
    /\ UNCHANGED <<hitDict, order, pc, frequencies, areas>>
    /\ UNCHANGED hitVars
    /\ UNCHANGED nicolaVars

AreaUnderCurve ==
    /\ pc = "ready"
    /\ Len(areas) < MaxAucCalls
    /\ LET integrated == areaUnderCurve(frequencies)
       IN  /\ ret' = [fn |-> "areaUnderCurve", integrated |-> integrated]
           /\ areas' = Append(areas, integrated)
    /\ frequencies' = AfterAreaUnderCurve(frequencies)
    /\ UNCHANGED <<hitDict, order, pc>>
    /\ UNCHANGED hitVars
    /\ UNCHANGED nicolaVars

\* the areas areaUnderCurve returned last are handed to areaUnderCurveIndex
AreaUnderCurveIndex ==
    /\ ret.fn = "areaUnderCurve"
    /\ ret' = [fn |-> "areaUnderCurveIndex",
               integrated |-> ret.integrated,
               indexes |-> areaUnderCurveIndex(ret.integrated, order)]
    /\ UNCHANGED <<hitDict, order, pc, frequencies, areas>>
    /\ UNCHANGED hitVars
    /\ UNCHANGED nicolaVars

Next ==
    \/ CalculateFrequencies
    \/ YoudenIndex
    \/ F1Index
    \/ AreaUnderCurve
    \/ AreaUnderCurveIndex

Spec == Init /\ [][Next]_vars

----------------------------------------------------------------------------
(* A caller that hands areaUnderCurve a frequencies object of its own      *)
(* making, whose false and true positive rates are equal at every index.   *)

DiagRates == {Rat(k, 3) : k \in 0..MaxRateNum}

Curves == UNION {[1..m -> DiagRates] : m \in 0..MaxCurveLen}

InitDiag ==
    /\ hitDict = [none |-> TRUE]
    /\ order = <<"blastn">>
    /\ pc = "ready"
    /\ \E q \in Curves : frequencies = [s \in {"blastn"} |-> [fprs |-> q, tprs |-> q]]
    /\ ret = [fn |-> "none"]
    /\ areas = <<>>
    /\ NoCountHits
    /\ NoNicola

NextDiag == AreaUnderCurve

SpecDiag == InitDiag /\ [][NextDiag]_vars

----------------------------------------------------------------------------
(* countHits                                                               *)

\* str.split(sep) on a sequence of characters: the fields between the
\* separators, empty fields kept
Split(chars, sep) ==
    LET at == {i \in 1..Len(chars) : chars[i] = sep}
        \* the place of the k-th separator, 0 before the first field and
        \* Len(chars) + 1 behind the last one
        end(k) == IF k = 0 THEN 0
                  ELSE IF k > Cardinality(at) THEN Len(chars) + 1
                  ELSE CHOOSE i \in at : Cardinality({j \in at : j < i}) = k - 1
    IN  List([k \in 1..(Cardinality(at) + 1) |->
                SubSeq(chars, end(k - 1) + 1, end(k) - 1)])

\* the string a sequence of characters spells
RECURSIVE Text(_)
Text(chars) ==
    IF chars = <<>> THEN ""
    ELSE IF Len(chars) = 1 THEN chars[1]
    ELSE LET half == Len(chars) \div 2
         IN  Text(SubSeq(chars, 1, half)) \o Text(SubSeq(chars, half + 1, Len(chars)))

\* blastFile.split('.')[2].split('/')[4], or the IndexError of a subscript
Title(file) ==
    LET parts == Split(file, ".")
    IN  IF Len(parts) < 3 THEN [raised |-> "IndexError"]
        ELSE LET t == Split(parts[3], "/")
             IN  IF Len(t) < 5 THEN [raised |-> "IndexError"]
                 ELSE [raised |-> "none", title |-> Text(t[5])]

\* a dict that takes a level it does not know as a new key, as a
\* defaultdict does
CountRecord_NewKeys(tbl, record, cut) ==
    LET fields == Split(record.query, "|")
    IN  IF Len(fields) < 3 THEN [raised |-> "IndexError", table |-> tbl]
        ELSE LET lvl == Text(fields[3])
             IN  IF record.alignments = <<>> THEN [raised |-> "none", table |-> tbl]
                 ELSE IF record.alignments[1].hsps[1].bits > cut
                      THEN [raised |-> "none",
                            table |-> [k \in DOMAIN tbl \cup {lvl} |->
                                          IF k = lvl
                                          THEN IF k \in DOMAIN tbl THEN tbl[k] + 1 ELSE 1
                                          ELSE tbl[k]]]
                      ELSE [raised |-> "none", table |-> tbl]

\* the cutoff compared with >= in place of >
CountRecord_AtCutoff(tbl, record, cut) ==
    LET fields == Split(record.query, "|")
    IN  IF Len(fields) < 3 THEN [raised |-> "IndexError", table |-> tbl]
        ELSE LET lvl == Text(fields[3])
             IN  IF record.alignments = <<>> THEN [raised |-> "none", table |-> tbl]
                 ELSE IF record.alignments[1].hsps[1].bits >= cut
                      THEN IF lvl \in DOMAIN tbl
                           THEN [raised |-> "none",
                                 table |-> [tbl EXCEPT ![lvl] = @ + 1]]
                           ELSE [raised |-> "KeyError", table |-> tbl]
                      ELSE [raised |-> "none", table |-> tbl]

\* the largest bit score among the first HSPs of the alignments a..Len(als)
RECURSIVE MaxScore(_, _)
MaxScore(als, a) ==
    IF a = Len(als) THEN als[a].hsps[1].bits
    ELSE LET m == MaxScore(als, a + 1)
         IN  IF als[a].hsps[1].bits > m THEN als[a].hsps[1].bits ELSE m

\* the best alignment looked for, in place of the first one taken
CountRecord_BestScore(tbl, record, cut) ==
    LET fields == Split(record.query, "|")
    IN  IF Len(fields) < 3 THEN [raised |-> "IndexError", table |-> tbl]
        ELSE LET lvl == Text(fields[3])
             IN  IF record.alignments = <<>> THEN [raised |-> "none", table |-> tbl]
                 ELSE IF MaxScore(record.alignments, 1) > cut
                      THEN IF lvl \in DOMAIN tbl
                           THEN [raised |-> "none",
                                 table |-> [tbl EXCEPT ![lvl] = @ + 1]]
                           ELSE [raised |-> "KeyError", table |-> tbl]
                      ELSE [raised |-> "none", table |-> tbl]

\* the body of the loop over the records: the error raised, if any, and the
\* dict after the record
CountRecord(tbl, record, cut) ==
    LET fields == Split(record.query, "|")
    IN  IF Len(fields) < 3 THEN [raised |-> "IndexError", table |-> tbl]
        ELSE LET lvl == Text(fields[3])
             IN  IF record.alignments = <<>> THEN [raised |-> "none", table |-> tbl]
                 ELSE LET score == record.alignments[1].hsps[1].bits
                      IN  IF score > cut
                          THEN IF lvl \in DOMAIN tbl
                               THEN [raised |-> "none",
                                     table |-> [tbl EXCEPT ![lvl] = @ + 1]]
                               ELSE [raised |-> "KeyError", table |-> tbl]
                          ELSE [raised |-> "none", table |-> tbl]

\* file names: one with a title where the code looks for it, one without
BlastFiles ==
    { <<"a", ".", "b", ".", "c", "/", "d", "/", "e", "/", "f", "/",
        "b", "l", "a", "s", "t", "n", ".", "j", "s", "o", "n">>,
      <<"b", "l", "a", "s", "t", "n", ".", "j", "s", "o", "n">> }

Cutoffs == {45, 50}

\* query ids of the levels 100 and 50, of a level that is none of the 22,
\* and one without a third field
Queries ==
    { <<"a", "|", "b", "|", "1", "0", "0">>,
      <<"a", "|", "b", "|", "5", "0">>,
      <<"a", "|", "b", "|", "4", "2">>,
      <<"a", "|", "b">> }

\* an alignment whose best HSP has the bit score b
Alignment(b) == [hsps |-> <<[bits |-> b]>>]

\* alignment lists: none, one below, at and above the cutoff, and two in
\* either order
AlignmentLists ==
    { <<>>, <<Alignment(40)>>, <<Alignment(50)>>, <<Alignment(60)>>,
      <<Alignment(60), Alignment(40)>>, <<Alignment(40), Alignment(60)>> }

Records == [query : Queries, alignments : AlignmentLists]

RecordLists == UNION {[1..m -> Records] : m \in 0..MaxRecords}

\* no call of the functions that work on frequencies is under way
NoFrequencies ==
    /\ hitDict = [none |-> TRUE]
    /\ order = <<>>
    /\ pc = "idle"
    /\ frequencies = [none |-> TRUE]
    /\ ret = [fn |-> "none"]
    /\ areas = <<>>

InitHits ==
    /\ blastFile \in BlastFiles
    /\ cutoff \in Cutoffs
    /\ records \in RecordLists
    /\ consumed = 0
    /\ reads = readsPerLevel
    /\ title = ""
    /\ hpc = "start"
    /\ NoFrequencies
    /\ NoNicola

\* the title is cut out of the file name before the first record is read
CutTitle ==
    /\ hpc = "start"
    /\ LET t == Title(blastFile)
       IN  IF t.raised = "none"
           THEN title' = t.title /\ hpc' = "loop"
           ELSE title' = title /\ hpc' = t.raised
    /\ UNCHANGED <<blastFile, cutoff, records, consumed, reads>>
    /\ UNCHANGED rocVars
    /\ UNCHANGED nicolaVars

\* one turn of the loop
NextRecord ==
    /\ hpc = "loop"
    /\ consumed < Len(records)
    /\ LET r == CountRecord(reads, records[consumed + 1], cutoff)
       IN  /\ reads' = r.table
           /\ hpc' = IF r.raised = "none" THEN "loop" ELSE r.raised
    /\ consumed' = consumed + 1
    /\ UNCHANGED <<blastFile, cutoff, records, title>>
    /\ UNCHANGED rocVars
    /\ UNCHANGED nicolaVars

\* the records are exhausted: return title, readsPerLevel
ReturnHits ==
    /\ hpc = "loop"
    /\ consumed = Len(records)
    /\ hpc' = "returned"
    /\ UNCHANGED <<blastFile, cutoff, records, consumed, reads, title>>
    /\ UNCHANGED rocVars
    /\ UNCHANGED nicolaVars

NextHits ==
    \/ CutTitle
    \/ NextRecord
    \/ ReturnHits

SpecHits == InitHits /\ [][NextHits]_vars

----------------------------------------------------------------------------
(* A caller that hands areaUnderCurveIndex a dict of areas.                *)

RankNames == {"blastn", "megablast", "dc-megablast", "tblastx"}

\* areas 1/2, 3/4 and 1
RankAreas == {[num |-> IntToSigned(k), den |-> NatToBig(4)] : k \in 2..4}

InitRank ==
    /\ \E S \in SUBSET RankNames :
          /\ Cardinality(S) <= MaxRanked
          /\ order \in Orders(S)
          /\ \E integrated \in [S -> RankAreas] :
                ret = [fn |-> "areaUnderCurve", integrated |-> integrated]
    /\ hitDict = [none |-> TRUE]
    /\ pc = "idle"
    /\ frequencies = [none |-> TRUE]
    /\ areas = <<>>
    /\ NoCountHits
    /\ NoNicola

NextRank == AreaUnderCurveIndex

SpecRank == InitRank /\ [][NextRank]_vars

----------------------------------------------------------------------------
(* nicola.py: the tables the titles are coloured by                        *)

\* re.compile(..., re.I): the alternatives of the pattern
ANSERIFORMESREGEX ==
    { <<"d", "u", "c", "k">>,
      <<"w", "a", "t", "e", "r", "f", "o", "w", "l">>,
      <<"w", "i", "d", "g", "e", "o", "n">>,
      <<"w", "i", "g", "e", "o", "n">>,
      <<"p", "i", "n", "t", "a", "i", "l">>,
      <<"g", "a", "r", "g", "a", "n", "e", "y">>, <<"t", "e", "a", "l">>,
      <<"m", "a", "l", "l", "a", "r", "d">>,
      <<"s", "h", "o", "v", "e", "l", "e", "r">>,
      <<"g", "a", "d", "w", "a", "l", "l">>,
      <<"c", "a", "n", "v", "a", "s", "b", "a", "c", "k">>,
      <<"r", "e", "d", "h", "e", "a", "d">>,
      <<"p", "o", "c", "h", "a", "r", "d">>, <<"s", "c", "a", "u", "p">>,
      <<"m", "e", "r", "g", "a", "n", "s", "e", "r">>,
      <<"e", "i", "d", "e", "r">>, <<"s", "c", "o", "t", "e", "r">>,
      <<"g", "o", "l", "d", "e", "n", "e", "y", "e">>,
      <<"b", "u", "f", "f", "l", "e", "h", "e", "a", "d">>,
      <<"s", "m", "e", "w">>,
      <<"g", "o", "o", "s", "a", "n", "d", "e", "r">>,
      <<"s", "h", "e", "l", "d", "u", "c", "k">>, <<"s", "w", "a", "n">>,
      <<"g", "o", "o", "s", "e">>, <<"c", "o", "o", "t">>,
      <<"s", "c", "o", "o", "t", "e", "r">> }

\* re.compile(..., re.I): the alternatives of the pattern
CHARADRIIFORMESREGEX ==
    { <<"g", "u", "l", "l">>, <<"t", "e", "r", "n">>,
      <<"s", "h", "o", "r", "e", "b", "i", "r", "d">>,
      <<"t", "u", "r", "n", "s", "t", "o", "n", "e">>,
      <<"s", "a", "n", "d", "p", "i", "p", "e", "r">>,
      <<"d", "u", "n", "l", "i", "n">>,
      <<"w", "a", "t", "e", "r", "c", "o", "c", "k">>,
      <<"l", "a", "p", "w", "i", "n", "g">>, <<"k", "n", "o", "t">>,
      <<"c", "u", "r", "l", "e", "w">>,
      <<"k", "i", "t", "t", "i", "w", "a", "k", "e">>,
      <<"s", "n", "i", "p", "e">>,
      <<"s", "a", "n", "d", "e", "r", "l", "i", "n", "g">>,
      <<"s", "t", "i", "n", "t">>, <<"p", "l", "o", "v", "e", "r">>,
      <<"w", "o", "o", "d", "c", "o", "c", "k">>,
      <<"m", "u", "r", "r", "e">>, <<"p", "u", "f", "f", "i", "n">>,
      <<"g", "u", "i", "l", "l", "e", "m", "o", "t">>,
      <<"s", "h", "e", "a", "r", "w", "a", "t", "e", "r">>,
      <<"o", "y", "s", "t", "e", "r", "c", "a", "t", "c", "h", "e", "r">> }

\* re.compile(..., re.I): the alternatives of the pattern
PELICANIFORMESREGEX ==
    { <<"p", "e", "l", "i", "c", "a", "n">>, <<"h", "e", "r", "o", "n">>,
      <<"e", "g", "r", "e", "t">>,
      <<"c", "o", "r", "m", "o", "r", "a", "n", "t">>,
      <<"g", "r", "e", "b", "e">>, <<"c", "r", "a", "n", "e">> }

\* re.compile(..., re.I): the alternatives of the pattern
COLUMBIFORMESREGEX ==
    { <<"p", "i", "g", "e", "o", "n">>, <<"d", "o", "v", "e">> }

\* re.compile(..., re.I): the alternatives of the pattern
PASSERIFORMESREGEX ==
    { <<"s", "p", "a", "r", "r", "o", "w">>,
      <<"w", "h", "e", "a", "t", "e", "a", "r">>,
      <<"s", "t", "a", "r", "l", "i", "n", "g">>,
      <<"m", "u", "n", "i", "a">>, <<"f", "i", "n", "c", "h">>,
      <<"s", "o", "f", "t", "b", "i", "l", "l">>,
      <<"s", "h", "r", "i", "k", "e">>, <<"r", "o", "b", "i", "n">>,
      <<"b", "l", "a", "c", "k", "b", "i", "r", "d">>,
      <<"m", "y", "n", "a">>, <<"i", "o", "r", "a">>,
      <<"m", "a", "g", "p", "i", "e">>, <<"c", "r", "o", "w">> }

\* re.compile(..., re.I): the alternatives of the pattern
PSITTATICIFORMESREGEX ==
    { <<"b", "u", "d", "g", "e", "r", "i", "g", "a", "r">>,
      <<"p", "a", "r", "r", "a", "k", "e", "e", "t">>,
      <<"p", "s", "i", "t", "t", "a", "c", "i", "n", "e">>,
      <<"c", "o", "c", "k", "a", "t", "o", "o">>,
      <<"c", "o", "n", "u", "r", "e">>, <<"m", "a", "c", "a", "w">>,
      <<"p", "a", "r", "a", "k", "e", "e", "t">>,
      <<"p", "a", "r", "r", "o", "t">> }

\* re.compile(..., re.I): the alternatives of the pattern
RAPTORREGEX ==
    { <<"h", "a", "w", "k">>, <<"k", "e", "s", "t", "r", "e", "l">>,
      <<"g", "o", "s", "h", "a", "w", "k">>,
      <<"b", "u", "z", "z", "a", "r", "d">>,
      <<"f", "a", "l", "c", "o", "n">>, <<"o", "w", "l">>,
      <<"e", "a", "g", "l", "e">>, <<"h", "a", "r", "r", "i", "e", "r">> }

\* re.compile(..., re.I): the alternatives of the pattern
INDETERMINATEHOSTREGEX ==
    { <<"a", "v", "i", "a", "n">>, <<"a", "q", "u", "a", "t", "i", "c">>,
      <<"b", "i", "r", "d">> }

\* re.compile(..., re.I): the alternatives of the pattern
ANATINAEREGEX ==
    { <<"w", "a", "t", "e", "r", "f", "o", "w", "l">>,
      <<"w", "i", "g", "e", "o", "n">>,
      <<"w", "i", "d", "g", "e", "o", "n">>,
      <<"p", "i", "n", "t", "a", "i", "l">>,
      <<"g", "a", "r", "g", "a", "n", "e", "y">>, <<"t", "e", "a", "l">>,
      <<"m", "a", "l", "l", "a", "r", "d">>,
      <<"s", "h", "o", "v", "e", "l", "e", "r">>,
      <<"g", "a", "d", "w", "a", "l", "l">>,
      <<"b", "l", "a", "c", "k", " ", "d", "u", "c", "k">>,
      <<"s", "c", "o", "o", "t", "e", "r">> }

\* re.compile(..., re.I): the alternatives of the pattern
AYTHYAREGEX ==
    { <<"c", "a", "n", "v", "a", "s", "b", "a", "c", "k">>,
      <<"t", "u", "f", "t", "e", "d", " ", "d", "u", "c", "k">>,
      <<"r", "e", "d", "h", "e", "a", "d">>,
      <<"p", "o", "c", "h", "a", "r", "d">>,
      <<"f", "e", "r", "r", "o", "g", "i", "n", "o", "u", "s", " ", "d", "u", "c", "k">>,
      <<"s", "c", "a", "u", "p">> }

\* re.compile(..., re.I): the alternatives of the pattern
MERGINIREGEX ==
    { <<"m", "e", "r", "g", "a", "n", "s", "e", "r">>,
      <<"e", "i", "d", "e", "r">>, <<"s", "c", "o", "t", "e", "r">>,
      <<"l", "o", "n", "g", "-", "t", "a", "i", "l", "e", "d", " ", "d", "u", "c", "k">>,
      <<"g", "o", "l", "d", "e", "n", "e", "y", "e">>,
      <<"b", "u", "f", "f", "l", "e", "h", "e", "a", "d">>,
      <<"s", "m", "e", "w">>, <<"g", "o", "o", "s", "a", "n", "d", "e", "r">> }

\* re.compile(..., re.I): the alternatives of the pattern
TADORNINIREGEX ==
    { <<"s", "h", "e", "l", "d", "u", "c", "k">> }

\* re.compile(..., re.I): the alternatives of the pattern
SWANREGEX ==
    { <<"s", "w", "a", "n">> }

\* re.compile(..., re.I): the alternatives of the pattern
GOOSEREGEX ==
    { <<"g", "o", "o", "s", "e">> }

\* re.compile(..., re.I): the alternatives of the pattern
GULLREGEX ==
    { <<"g", "u", "l", "l">> }

\* re.compile(..., re.I): the alternatives of the pattern
TERNREGEX ==
    { <<"t", "e", "r", "n">>,
      <<"A", "r", "c", "t", "i", "c", " ", "t", "e", "r", "n">>,
      <<"C", "o", "m", "m", "o", "n", " ", "T", "e", "r", "n">>,
      <<"l", "i", "t", "t", "l", "e", " ", "t", "e", "r", "n">>,
      <<"s", "o", "o", "t", "y", " ", "t", "e", "r", "n">> }

\* re.compile(..., re.I): the alternatives of the pattern
WADERREGEX ==
    { <<"s", "h", "o", "r", "e", "b", "i", "r", "d">>,
      <<"r", "u", "d", "d", "y", " ", "t", "u", "r", "n", "s", "t", "o", "n", "e">>,
      <<"t", "u", "r", "n", "s", "t", "o", "n", "e">>,
      <<"s", "a", "n", "d", "p", "i", "p", "e", "r">>,
      <<"d", "u", "n", "l", "i", "n">>,
      <<"w", "a", "t", "e", "r", "c", "o", "c", "k">>,
      <<"n", "o", "r", "t", "h", "e", "r", "n", " ", "l", "a", "p", "w", "i", "n", "g">>,
      <<"k", "n", "o", "t">>, <<"c", "u", "r", "l", "e", "w">>,
      <<"s", "a", "n", "d", "e", "r", "l", "i", "n", "g">>,
      <<"s", "t", "i", "n", "t">>, <<"p", "l", "o", "v", "e", "r">>,
      <<"w", "o", "o", "d", "c", "o", "c", "k">> }

\* re.compile(..., re.I): the alternatives of the pattern
AUKREGEX ==
    { <<"m", "u", "r", "r", "e">>, <<"p", "u", "f", "f", "i", "n">>,
      <<"g", "u", "i", "l", "l", "e", "m", "o", "t">>,
      <<"s", "h", "e", "a", "r", "w", "a", "t", "e", "r">> }

\* re.compile(..., re.I): the alternatives of the pattern
DOMESTICREGEX ==
    { <<"c", "h", "i", "c", "k", "e", "n">>, <<"F", "P", "V">>,
      <<"t", "u", "r", "k", "e", "y">>, <<"q", "u", "a", "i", "l">>,
      <<"g", "u", "i", "n", "e", "a">>,
      <<"o", "s", "t", "r", "i", "c", "h">>, <<"e", "m", "u">>,
      <<"f", "o", "w", "l">>, <<"p", "h", "e", "a", "s", "a", "n", "t">>,
      <<"p", "o", "u", "l", "t", "r", "y">>, <<"r", "h", "e", "a">>,
      <<"p", "a", "r", "t", "r", "i", "d", "g", "e">>,
      <<"b", "a", "n", "t", "a", "m">>, <<"p", "e", "r", "d", "i", "x">>,
      <<"p", "e", "a", "c", "o", "c", "k">>,
      <<"c", "h", "u", "k", "k", "a", "r">> }

NEITHER == "grey"

CHARADRIIFORMES == "red"

ANSERIFORMES == "green"

PELICANIFORMES == "cyan"

COLUMBIFORMES == "magenta"

PASSERIFORMES == "orange"

PSITTATICIFORMES == "#4C0B5F"

RAPTOR == "yellow"

INDETERMINATEHOST == "black"

ANATINAE == "green"

AYTHYA == "blue"

MERGINI == "cyan"

TADORNINI == "#00FF00"

SWAN == "#088A68"

GOOSE == "#A9F5D0"

GULL == "red"

TERN == "orange"

WADER == "#4C0B5F"

AUK == "yellow"

\* bound at line 65 and bound again at line 116: the later value is the one
\* the functions see
DOMESTIC == "black"

\* OTHER in the source, a reserved word here
OTHER_ == "grey"

EURASIA == "#E0F2F7"

NORTHAMERICA == "#FBEFEF"

SOUTHAMERICA == "#F5F6CE"

AFRICA == "#CEF6D8"

EURASIAREGEX ==
    { "Republic of Georgia", "Sweden", "Norway", "Hokkaido", "Mongolia",
      "Iceland", "Astrakhan", "Siberia", "Netherlands", "Potsdam", "Ukraine",
      "Hubei", "Hong Kong", "England", "Czech Republic", "United Kingdom",
      "Czechoslovakia", "Shimane", "Germany", "Leipzig", "Scotland", "Henan",
      "Stralsund", "HuNan", "Marquenterre", "Berlin", "Rugen", "Jena",
      "Korea", "Wagun", "Postdam", "France", "Italy", "Dongting",
      "Heinersdorf", "Altai", "Egypt", "Guangxi", "Taiwan", "Gurjev",
      "Jiangxi", "HK", "Chabarovsk", "Shantou", "England-Q", "South Africa",
      "Jiang Xi", "Nanjing", "Vietnam", "Primorie", "India", "Denmark",
      "Thailand", "Guangdong", "Xianghai", "Spain", "Lebanon", "Shiga",
      "Jiangsu", "Bavaria", "Hunan", "Eastern China", "PT", "Belgium",
      "Australia", "Slovenia", "Yunnan", "Yokohama", "Guizhou", "Fujian",
      "Singapore-Q", "Hungary", "Iran", "Japan", "Pakistan", "Moscow",
      "Israel", "Shimone", "Nanchang", "Saudi Arabia", "Hampshire", "Perak",
      "Gloucestershire", "SanJiang", "Hei Longjiang", "Ireland", "Dubai",
      "Netherlands2", "Zhejiang", "Malaysia", "Sanjiang", "Chany",
      "Portugal", "Heilongjiang", "Qinghai", "AUS", "Tasmania",
      "Western Australia", "HONG KONG", "Hebei", "HuBei", "Beijing",
      "Victoria", "ZhaLong", "Yan chen", "Shandong", "Buryatiya",
      "Interior Alaska", "Xuyi", "Hongze", "Laos", "Osaka", "Yangzhou",
      "Aktau", "Chiba", "Huadong", "Shanghai", "Anyang", "Akita", "Gui Yang",
      "Karachi", "Tyva", "Jilin", "New Zealand", "Lao", "Suphanburi",
      "Bulgaria", "Aomori", "Fukushima", "Hamanaka", "Yamaguchi", "Tochigi",
      "Kagoshima", "Anhui", "Singapore", "Guiyang", "Nam Dinh", "Ninh Binh",
      "Sichuan", "Phu Tho", "Oita", "Son La", "Thai Ninh", "Thai Binh",
      "Ha Nam", "Nghe An", "Hai Duong", "Ha Tinh", "Bac Gieng", "Bac Giang",
      "Mong Cai", "Primorje", "Cao Bang", "Bac Ninh", "Kyoto", "Toyama",
      "Aichi", "Oregon", "Switzerland", "Pavia", "Austria", "NZL",
      "Northern Ireland", "Finland", "Viet Nam", "KOREA", "Newcastle",
      "Cheongju", "Morpeth", "Middle East", "Jordan", "Neve Ilan",
      "Beit HaLevi", "Givat Haim", "Eshkol", "Tel Adashim", "Talmei Elazar",
      "Narita", "Tianjing", "China", "Gansu", "Shijiazhuang", "Shenzhen",
      "Heibei", "Emirates", "Gangxi", "Xuzhou", "Atyrau", "Volga",
      "Turkmenistan", "Novosibirsk", "Almaty", "Miyagi", "Tsukuba",
      "Praimoric", "Crimea", "Italy12rs206-2", "Wales", "Iwate", "Gunma",
      "Fukui", "Seongdong", "bavaria", "Indonesia", "Netherland-18",
      "Barrow", "Tainan", "San Jiang", "Changhua", "Geumgang", "Wenzhou",
      "Rizhao", "Korgalzhyn", "Saitama", "GuangXi", "Bhutan", "Bunbury",
      "Perth", "Czech", "Nha Trang", "PoyangLake", "Poyang Lake",
      "Buryatuya", "Ningxia", "Guangzhou", "Dutch", "Dobson", "england",
      "Brescia", "Turkmenia", "Rostock", "Niigata", "Shizuoka", "Chakwal",
      "Rawalpindi", "Murree", "Mansehra", "Abbottabad", "Queensland",
      "HongKong", "It", "Burytiya", "Ibaraki",
      "Weybridge|Segment:6|Subtype:H7N7|Host:Avian", "Mangystau", "Ulster",
      "Miyagil", "Burjatia", "kumamoto", "Tunka", "NSW", "New South Wales",
      "Sheny", "Liaoning", "Tibet", "Shanxi", "Islamabad", "Lahore-Pakistan",
      "West Bengal", "Manshera", "SouthKalimantan", "Palopo",
      "EastKalimantan", "Islamabad-Pakistan", "Mansehra-Pakistan",
      "Pakistan-Khi", "Sihala", "Pakistan-Lhr", "Afghanistan",
      "Deli Serdang", "Suzdalka", "Chakshahzad", "Croatia", "Omsk",
      "Krasnoozerskoe", "Taput", "Siantar", "Pinrang", "Pare Pare", "BIH",
      "Denpasar", "Tanjung Balai", "Tana Toraja", "Simalungun", "Medan",
      "Maros", "Mamuju", "Karo", "Gianyar", "Aceh Barat", "South Kalimantan",
      "Langkat", "Bangladesh", "Suzhou", "Bantaeng", "Xinjiang", "East Java",
      "West Java", "Sidrap", "Bantul", "Ciamis", "Bireun", "Aceh Besar",
      "EastJava", "CentralJava", "Tabanan", "Pidie", "Banten", "Heuwiese",
      "Astr", "Jalisco", "Slovakia", "Koymor", "Yangcheng", "Tagarskoe lake",
      "South Kazakhstan", "Ust-Ilimsk", "Gaoyou",
      "Dobson|Segment:8|Subtype:H7N7|Host:Avian", "FPV",
      "Weybridge|Segment:8|Subtype:H7N7|Host:Avian", "Bethlehem-Glilit",
      "Gippsland" }

NORTHAMERICAREGEX ==
    { "Southcentral Alaska", "Southeastern Alaska", "Quebec",
      "New Brunswick", "DE", "Newfoundland", "Maryland", "Minnesota", "NJ",
      "Alaska", "California", "Delaware", "Georgia", "Delaware Bay",
      "New Jersey", "New York", "MT", "Alberta", "NY", "PA", "Pennsylvania",
      "CA", "Washington", "ST", "MN", "Wisconsin", "TX", "Texas", "Stockton",
      "Missouri", "ALB", "Ohio", "Virginia", "Arkansas", "Iowa",
      "North Carolina", "Nova Scotia", "Tennessee", "Illinois", "New Mexico",
      "Mississippi", "Canada", "Alabama", "Louisiana", "Arizona", "LA",
      "Ontario", "Massachusetts", "OH", "Connecticut", "MD", "Colorado",
      "Memphis", "Saskatchewan", "North Dakota", "VA", "Michigan", "Maine",
      "Prince Edward Island", "JX", "WI", "MO", "SD", "IN", "South Dakota",
      "Newfoundland and Labrador", "Utah", "Kentucky", "CO",
      "Massachussetts", "Indiana", "QC", "SK", "Montana", "GA", "Manitoba",
      "Edmonton", "Nunavet", "British Columbia", "NB", "BC", "Barbados",
      "Wyoming", "NV" }

SOUTHAMERICAREGEX ==
    { "Chile", "Argentina", "Guatemala", "Brazil", "Mexico", "Ilha de Canelas" }

AFRICAREGEX ==
    { "Zambia", "Zimbabwe", "SouthAfrica", "Nigeria" }

----------------------------------------------------------------------------
(* nicola.py: _getCountry, _getBird and computePercentId                   *)

\* the lower-case letter of every upper-case one
LowerCase ==
    ("A" :> "a") @@ ("B" :> "b") @@ ("C" :> "c") @@ ("D" :> "d") @@
    ("E" :> "e") @@ ("F" :> "f") @@ ("G" :> "g") @@ ("H" :> "h") @@
    ("I" :> "i") @@ ("J" :> "j") @@ ("K" :> "k") @@ ("L" :> "l") @@
    ("M" :> "m") @@ ("N" :> "n") @@ ("O" :> "o") @@ ("P" :> "p") @@
    ("Q" :> "q") @@ ("R" :> "r") @@ ("S" :> "s") @@ ("T" :> "t") @@
    ("U" :> "u") @@ ("V" :> "v") @@ ("W" :> "w") @@ ("X" :> "x") @@
    ("Y" :> "y") @@ ("Z" :> "z")

\* a title or a pattern with its letters in lower case: what re.I compares
ToLower(chars) ==
    List([i \in 1..Len(chars) |->
            IF chars[i] \in DOMAIN LowerCase THEN LowerCase[chars[i]] ELSE chars[i]])

\* regex.search(title) is not None, for a pattern of literal alternatives
\* compiled with re.I: one of them occurs somewhere in the title
Search(regex, chars) ==
    LET low == ToLower(chars)
    IN  \E lit \in regex :
            \E i \in 1..(Len(low) - Len(lit) + 1) :
                SubSeq(low, i, i + Len(lit) - 1) = ToLower(lit)

\* a value returned: an int or a str
PyInt(n) == [kind |-> "int", value |-> n]

PyStr(t) == [kind |-> "str", value |-> t]

None == [kind |-> "None"]

\* the categories of the mode 'all' in the order _getBird asks them
AllPriority ==
    << [regex |-> ANSERIFORMESREGEX, colour |-> ANSERIFORMES],
       [regex |-> CHARADRIIFORMESREGEX, colour |-> CHARADRIIFORMES],
       [regex |-> PELICANIFORMESREGEX, colour |-> PELICANIFORMES],
       [regex |-> DOMESTICREGEX, colour |-> DOMESTIC],
       [regex |-> COLUMBIFORMESREGEX, colour |-> COLUMBIFORMES],
       [regex |-> PASSERIFORMESREGEX, colour |-> PASSERIFORMES],
       [regex |-> PSITTATICIFORMESREGEX, colour |-> PSITTATICIFORMES],
       [regex |-> RAPTORREGEX, colour |-> RAPTOR],
       [regex |-> INDETERMINATEHOSTREGEX, colour |-> INDETERMINATEHOST] >>

\* the categories of the mode 'anseriformes and charadriiformes', likewise
AnsCharPriority ==
    << [regex |-> ANATINAEREGEX, colour |-> ANATINAE],
       [regex |-> AYTHYAREGEX, colour |-> AYTHYA],
       [regex |-> MERGINIREGEX, colour |-> MERGINI],
       [regex |-> TADORNINIREGEX, colour |-> TADORNINI],
       [regex |-> SWANREGEX, colour |-> SWAN],
       [regex |-> GOOSEREGEX, colour |-> GOOSE],
       [regex |-> GULLREGEX, colour |-> GULL],
       [regex |-> TERNREGEX, colour |-> TERN],
       [regex |-> WADERREGEX, colour |-> WADER],
       [regex |-> AUKREGEX, colour |-> AUK],
       [regex |-> DOMESTICREGEX, colour |-> DOMESTIC] >>

\* the categories of priority whose pattern is found in the title
Matching(priority, chars) ==
    {i \in DOMAIN priority : Search(priority[i].regex, chars)}

\* a _getCountry that looks at the second field instead of the third
_getCountry_SecondField(chars) ==
    LET fields == Split(chars, "/")
    IN  IF Len(fields) < 3 THEN PyInt(0)
        ELSE LET country == Text(fields[2])
             IN  IF country \in EURASIAREGEX THEN PyStr(EURASIA)
                 ELSE IF country \in NORTHAMERICAREGEX THEN PyStr(NORTHAMERICA)
                 ELSE IF country \in SOUTHAMERICAREGEX THEN PyStr(SOUTHAMERICA)
                 ELSE IF country \in AFRICAREGEX THEN PyStr(AFRICA)
                 ELSE PyStr("white")

\* a _getBird that answers with the last category that matches
_getBird_LastMatch(chars, colorBy) ==
    LET priority == IF colorBy = "all" THEN AllPriority ELSE AnsCharPriority
        found == Matching(priority, chars)
    IN  IF colorBy \notin {"all", "anseriformes and charadriiformes"} THEN None
        ELSE IF found = {} THEN PyStr(IF colorBy = "all" THEN NEITHER ELSE OTHER_)
        ELSE PyStr(priority[CHOOSE i \in found : \A j \in found : j <= i].colour)

_getCountry(chars) ==
    LET fields == Split(chars, "/")
    IN  IF Len(fields) < 3 THEN PyInt(0)
        ELSE LET country == Text(fields[3])
             IN  IF country \in EURASIAREGEX THEN PyStr(EURASIA)
                 ELSE IF country \in NORTHAMERICAREGEX THEN PyStr(NORTHAMERICA)
                 ELSE IF country \in SOUTHAMERICAREGEX THEN PyStr(SOUTHAMERICA)
                 ELSE IF country \in AFRICAREGEX THEN PyStr(AFRICA)
                 ELSE PyStr("white")

_getBird(chars, colorBy) ==
    IF colorBy = "anseriformes and charadriiformes"
    THEN IF Search(ANATINAEREGEX, chars) THEN PyStr(ANATINAE)
         ELSE IF Search(AYTHYAREGEX, chars) THEN PyStr(AYTHYA)
         ELSE IF Search(MERGINIREGEX, chars) THEN PyStr(MERGINI)
         ELSE IF Search(TADORNINIREGEX, chars) THEN PyStr(TADORNINI)
         ELSE IF Search(SWANREGEX, chars) THEN PyStr(SWAN)
         ELSE IF Search(GOOSEREGEX, chars) THEN PyStr(GOOSE)
         ELSE IF Search(GULLREGEX, chars) THEN PyStr(GULL)
         ELSE IF Search(TERNREGEX, chars) THEN PyStr(TERN)
         ELSE IF Search(WADERREGEX, chars) THEN PyStr(WADER)
         ELSE IF Search(AUKREGEX, chars) THEN PyStr(AUK)
         ELSE IF Search(DOMESTICREGEX, chars) THEN PyStr(DOMESTIC)
         ELSE PyStr(OTHER_)
    ELSE IF colorBy = "all"
    THEN IF Search(ANSERIFORMESREGEX, chars) THEN PyStr(ANSERIFORMES)
         ELSE IF Search(CHARADRIIFORMESREGEX, chars) THEN PyStr(CHARADRIIFORMES)
         ELSE IF Search(PELICANIFORMESREGEX, chars) THEN PyStr(PELICANIFORMES)
         ELSE IF Search(DOMESTICREGEX, chars) THEN PyStr(DOMESTIC)
         ELSE IF Search(COLUMBIFORMESREGEX, chars) THEN PyStr(COLUMBIFORMES)
         ELSE IF Search(PASSERIFORMESREGEX, chars) THEN PyStr(PASSERIFORMES)
         ELSE IF Search(PSITTATICIFORMESREGEX, chars) THEN PyStr(PSITTATICIFORMES)
         ELSE IF Search(RAPTORREGEX, chars) THEN PyStr(RAPTOR)
         ELSE IF Search(INDETERMINATEHOSTREGEX, chars) THEN PyStr(INDETERMINATEHOST)
         ELSE PyStr(NEITHER)
    ELSE None

\* the pairs zip(query, sbjct) yields whose two characters are equal
RECURSIVE Identical(_, _, _)
Identical(query, sbjct, i) ==
    IF i > Len(query) \/ i > Len(sbjct) THEN 0
    ELSE (IF query[i] = sbjct[i] THEN 1 ELSE 0) + Identical(query, sbjct, i + 1)

\* a computePercentId that multiplies by 100 before it divides
computePercentId_TimesFirst(alignment) ==
    LET query == alignment.hsps[1].query
        sbjct == alignment.hsps[1].sbjct
        length == Len(query)
        identical == Identical(query, sbjct, 1)
    IN  IF length = 0 THEN [raised |-> "ZeroDivisionError"]
        ELSE [raised |-> "none",
              identity |-> DoubleDiv(100 * identical, length)]

\* identical / float(length) * 100, or the ZeroDivisionError of an empty
\* query
computePercentId(alignment) ==
    LET query == alignment.hsps[1].query
        sbjct == alignment.hsps[1].sbjct
        length == Len(query)
        identical == Identical(query, sbjct, 1)
    IN  IF length = 0 THEN [raised |-> "ZeroDivisionError"]
        ELSE [raised |-> "none",
              identity |-> DoubleMulInt(DoubleDiv(identical, length), 100)]

----------------------------------------------------------------------------
(* nicola.py: distancePlot                                                 *)

\* the loop of lines 393-395 from alignment i on: every first HSP is given
\* its percent identity for bit score, until computePercentId raises
RECURSIVE WithPercentIds(_, _)
WithPercentIds(alignments, i) ==
    IF i > Len(alignments) THEN [raised |-> "none", alignments |-> alignments]
    ELSE LET identity == computePercentId(alignments[i])
         IN  IF identity.raised # "none"
             THEN [raised |-> identity.raised, alignments |-> alignments]
             ELSE WithPercentIds(
                    [alignments EXCEPT ![i].hsps[1].bits = identity.identity],
                    i + 1)

\* the key of the sort: the bits of the first HSP, ints as they were read
\* or the floats of computePercentId
KeyCmp(a, b, floats) ==
    IF floats THEN DoubleCmp(a.hsps[1].bits, b.hsps[1].bits)
    ELSE IF a.hsps[1].bits < b.hsps[1].bits THEN -1
    ELSE IF a.hsps[1].bits > b.hsps[1].bits THEN 1
    ELSE 0

\* a put into the list sorted, behind the ones whose key is not smaller
RECURSIVE InsertedByBits(_, _, _)
InsertedByBits(sorted, a, floats) ==
    IF sorted = <<>> THEN <<a>>
    ELSE IF KeyCmp(Head(sorted), a, floats) >= 0
         THEN <<Head(sorted)>> \o InsertedByBits(Tail(sorted), a, floats)
         ELSE <<a>> \o sorted

\* a put into the list sorted, behind the ones whose key is not larger
RECURSIVE InsertedByBits_Ascending(_, _, _)
InsertedByBits_Ascending(sorted, a, floats) ==
    IF sorted = <<>> THEN <<a>>
    ELSE IF KeyCmp(Head(sorted), a, floats) <= 0
         THEN <<Head(sorted)>> \o InsertedByBits_Ascending(Tail(sorted), a, floats)
         ELSE <<a>> \o sorted

\* a sort without reverse=True
RECURSIVE SortedByBits_Ascending(_, _, _)
SortedByBits_Ascending(alignments, n, floats) ==
    IF n = 0 THEN <<>>
    ELSE InsertedByBits_Ascending(SortedByBits_Ascending(alignments, n - 1, floats),
                                  alignments[n], floats)

\* sorted(alignments, key=..., reverse=True) of the first n alignments: the
\* largest key first, equal keys in the order they were listed
RECURSIVE SortedByBits(_, _, _)
SortedByBits(alignments, n, floats) ==
    IF n = 0 THEN <<>>
    ELSE InsertedByBits(SortedByBits(alignments, n - 1, floats),
                        alignments[n], floats)

\* chars[n:]
Slice(chars, n) == SubSeq(chars, n + 1, Len(chars))

\* splitted[1][26:] + '/' + splitted[3][8:]
ShortTitle(chars) ==
    LET splitted == Split(chars, "|")
    IN  Slice(splitted[2], 26) \o <<"/">> \o Slice(splitted[4], 8)

\* the call distancePlot(record, distance, colorBy, continents); accepts
\* says whether the plotting library takes the 0 of _getCountry for a colour
distancePlot(record, distance, colorBy, continents, accepts) ==
    LET identities == IF distance # "bit"
                      THEN WithPercentIds(record.alignments, 1)
                      ELSE [raised |-> "none", alignments |-> record.alignments]
        after == [record EXCEPT !.alignments = identities.alignments]
        alignments == identities.alignments
        sortedAlignments == SortedByBits(alignments, Len(alignments), distance # "bit")
        distances == List([i \in DOMAIN sortedAlignments |-> sortedAlignments[i].hsps[1].bits])
        titles == List([i \in DOMAIN sortedAlignments |-> sortedAlignments[i].title])
        birds == List([i \in DOMAIN titles |-> _getBird(titles[i], colorBy)])
        titlesToPlot == List([i \in DOMAIN titles |-> ShortTitle(titles[i])])
        countries == List([i \in DOMAIN titles |-> _getCountry(titlesToPlot[i])])
    IN  IF identities.raised # "none"
        THEN [raised |-> identities.raised, record |-> after]
        ELSE IF \E i \in DOMAIN titles : Len(Split(titles[i], "|")) < 4
        THEN [raised |-> "IndexError", record |-> after]
        ELSE IF continents /\ ~accepts /\ \E i \in DOMAIN countries : countries[i].kind = "int"
        THEN [raised |-> "ValueError", record |-> after]
        ELSE IF distances = <<>>
        THEN [raised |-> "IndexError", record |-> after]
        ELSE [raised |-> "none", record |-> after,
              value |-> <<distances[1], Len(distances)>>,
              birds |-> birds,
              countries |-> IF continents THEN countries ELSE <<>>]

----------------------------------------------------------------------------
(* nicola.py: the calls of its functions                                   *)

\* words of titles: one that matches each category, one found inside a
\* longer word, ones in another case, one no pattern matches
Words ==
    { <<"d", "u", "c", "k">>,
      <<"t", "e", "a", "l">>,
      <<"t", "u", "f", "t", "e", "d", " ", "d", "u", "c", "k">>,
      <<"e", "i", "d", "e", "r">>,
      <<"s", "h", "e", "l", "d", "u", "c", "k">>,
      <<"s", "w", "a", "n">>,
      <<"g", "o", "o", "s", "e">>,
      <<"g", "u", "l", "l">>,
      <<"C", "o", "m", "m", "o", "n", " ", "T", "e", "r", "n">>,
      <<"E", "a", "s", "t", "e", "r", "n">>,
      <<"d", "u", "n", "l", "i", "n">>,
      <<"p", "u", "f", "f", "i", "n">>,
      <<"p", "e", "l", "i", "c", "a", "n">>,
      <<"c", "h", "i", "c", "k", "e", "n">>,
      <<"p", "i", "g", "e", "o", "n">>,
      <<"f", "i", "n", "c", "h">>,
      <<"m", "a", "c", "a", "w">>,
      <<"f", "a", "l", "c", "o", "n">>,
      <<"a", "v", "i", "a", "n">>,
      <<"w", "a", "t", "e", "r", "f", "o", "w", "l">>,
      <<"S", "H", "O", "R", "E", "B", "I", "R", "D">>,
      <<"s", "p", "a", "c", "e">> }

\* the titles _getBird is called with: no word, one word, or two words in
\* either order
BirdTitles ==
    {<<>>} \cup Words \cup {List(v \o <<" ">> \o w) : v, w \in Words}

ColorBys == {"all", "anseriformes and charadriiformes", "order"}

\* the titles _getCountry is called with
CountryTitles ==
    { <<"I", "'", "m", "/", "a", " ", "r", "a", "n", "d", "o", "m", "t", "i", "t", "l", "e", " ", "I", "'", "m", " ", "f", "r", "o", "m", "/", "M", "o", "n", "g", "o", "l", "i", "a">>,
      <<"I", "'", "m", "/", "a", " ", "r", "a", "n", "d", "o", "m", "t", "i", "t", "l", "e", " ", "I", "'", "m", " ", "f", "r", "o", "m", "/", "s", "p", "a", "c", "e">>,
      <<"a", "/", "M", "o", "n", "g", "o", "l", "i", "a", "/", "b">>,
      <<"a", "/", "b", "/", "M", "o", "n", "g", "o", "l", "i", "a", "/", "C", "h", "i", "l", "e">>,
      <<"a", "/", "b", "/", "m", "o", "n", "g", "o", "l", "i", "a">>,
      <<"a", "/", "b", "/", "M", "o", "n", "g", "o", "l", "i", "a", " ">>,
      <<"M", "o", "n", "g", "o", "l", "i", "a">>,
      <<"a", "/", "C", "h", "i", "l", "e">>,
      <<>>,
      <<"/", "/">>,
      <<"a", "/", "b", "/", "A", "l", "a", "s", "k", "a">>,
      <<"a", "/", "b", "/", "S", "o", "u", "t", "h", "c", "e", "n", "t", "r", "a", "l", " ", "A", "l", "a", "s", "k", "a">>,
      <<"Z", "a", "m", "b", "i", "a", "/", "b", "/", "C", "h", "i", "l", "e">>,
      <<"a", "/", "b", "/", "Z", "a", "m", "b", "i", "a">>,
      <<"a", "/", "/", "N", "i", "g", "e", "r", "i", "a", "/">>,
      <<"a", "/", "b", "/", "D", "E">>,
      <<"d", "-", "Q", "/", "9", "8", "3", "/", "1", "9", "7", "9", "/">>,
      <<" ", "(", "A", "/", "d", "u", "c", "k", "/", "M", "o", "n", "g", "o", "l", "i", "a", "/", "1", "/", "2", "0", "0", "0", "(", "H", "5", "N", "1", ")", ")", "/", "H", "5", "N", "1">>,
      <<"a", "/", "b", "/", "S", "o", "u", "t", "h", "A", "f", "r", "i", "c", "a", "/", "N", "o", "r", "w", "a", "y">>,
      <<"a", "/", "b", "/", "S", "o", "u", "t", "h", " ", "A", "f", "r", "i", "c", "a">> }

\* the calls of the functions of nicola.py
BirdCalls ==
    {[fn |-> "_getBird", title |-> chars, colorBy |-> colorBy] :
        chars \in BirdTitles, colorBy \in ColorBys}

CountryCalls ==
    {[fn |-> "_getCountry", title |-> chars] : chars \in CountryTitles}

\* the strings of length 0..n over the alphabet
Strings(alphabet, n) == UNION {[1..k -> alphabet] : k \in 0..n}

\* an alignment: its title and the one HSP the functions read
TitledAlignment(chars, bits, query, sbjct) ==
    [title |-> chars,
     hsps |-> <<[bits |-> bits, query |-> query, sbjct |-> sbjct]>>]

\* the query of the alignments of test_nicola.py and their three subjects
TestQuery == <<"T", "A", "C", "C", "C", "T", "G", "C", "G", "G", "C", "C", "C", "G", "C", "T", "A", "C", "G", "G", "C", "T", "G", "G">>

TestSubjects ==
    { TestQuery,
      [i \in 1..Len(TestQuery) |-> "-"],
      [i \in 1..Len(TestQuery) |-> IF i = 16 THEN "-" ELSE TestQuery[i]] }

\* the alignments computePercentId is called with
PercentIdAlignments ==
    {TitledAlignment(<<"M", "e", "r", "k", "e", "l", "1">>, 20, query, sbjct) :
        query \in Strings({"A", "C"}, MaxSeqLen),
        sbjct \in Strings({"A", "-"}, MaxSeqLen)}
    \cup {TitledAlignment(<<"M", "e", "r", "k", "e", "l", "1">>, 20, TestQuery, sbjct) :
            sbjct \in TestSubjects}

PercentIdCalls ==
    {[fn |-> "computePercentId", alignment |-> a] : a \in PercentIdAlignments}

\* a title of test_nicola.py, a title of the data base the slices are cut
\* for, a title without bars and a title with short fields
TestTitle ==
    << "g", "b", ":", "A", "2", "|", "O", "r", "m", ":", "I", "n", "s", 
       " ", "A", "/", "A", "f", "r", "i", "c", "l", "i", "n", "g", "/", 
       "E", "n", "g", "l", "a", "n", "d", "-", "Q", "/", "9", "8", "3", 
       "/", "1", "9", "7", "9", "|", "S", "e", "t", ":", "7", "|", "S", 
       "u", "e", ":", "H", "7", "N", "1", "|", "H", "o", "s", "t", ":", 
       "A", "f", "r", "i", "c", "l", "i", "n", "g" >>

VirusTitle ==
    << "g", "b", ":", "C", "Y", "1", "|", "O", "r", "g", "a", "n", "i", 
       "s", "m", ":", "I", "n", "f", "l", "u", "e", "n", "z", "a", " ", 
       "A", " ", "v", "i", "r", "u", "s", " ", "(", "A", "/", "d", "u", 
       "c", "k", "/", "M", "o", "n", "g", "o", "l", "i", "a", "/", "1", 
       "/", "2", "0", "0", "0", "(", "H", "5", "N", "1", ")", ")", "|", 
       "S", "e", "g", "m", "e", "n", "t", ":", "4", "|", "S", "u", "b", 
       "t", "y", "p", "e", ":", "H", "5", "N", "1", "|", "H", "o", "s", 
       "t", ":", "A", "v", "i", "a", "n" >>

\* the alignments of the records distancePlot is called with
PlotAlignments ==
    { TitledAlignment(TestTitle, 20, TestQuery,
                      [i \in 1..Len(TestQuery) |-> IF i = 16 THEN "-" ELSE TestQuery[i]]),
      TitledAlignment(VirusTitle, 20, TestQuery, [i \in 1..Len(TestQuery) |-> "-"]),
      TitledAlignment(VirusTitle, 10, <<"A", "C">>, <<"A", "C">>),
      TitledAlignment(<<"M", "e", "r", "k", "e", "l", "1">>, 30, <<"A", "C">>, <<"A", "-">>),
      TitledAlignment(<<"a", "|", "b", "|", "c", "|", "d">>, 30, <<>>, <<>>),
      TitledAlignment(<<"a", "|", "b", "|", "c", "|", "d">>, 10, <<"A", "C", "A">>, <<"A", "-", "-">>) }

PlotRecords ==
    {[query |-> "H6E8I1T01BFUH9", alignments |-> alignments] :
        alignments \in UNION {[1..n -> PlotAlignments] : n \in 0..MaxAlignments}}

PlotCalls ==
    {[fn |-> "distancePlot", record |-> record, distance |-> distance,
      colorBy |-> "all", continents |-> continents] :
        record \in PlotRecords, distance \in {"bit", "percentId"},
        continents \in BOOLEAN}

\* the call has not returned
Pending == [raised |-> "pending"]

InitNicola ==
    /\ call \in BirdCalls \cup CountryCalls \cup PercentIdCalls \cup PlotCalls
    /\ result = Pending
    /\ NoFrequencies
    /\ NoCountHits

GetBird ==
    /\ call.fn = "_getBird"
    /\ result = Pending
    /\ result' = _getBird(call.title, call.colorBy)
    /\ UNCHANGED call
    /\ UNCHANGED rocVars
    /\ UNCHANGED hitVars

GetCountry ==
    /\ call.fn = "_getCountry"
    /\ result = Pending
    /\ result' = _getCountry(call.title)
    /\ UNCHANGED call
    /\ UNCHANGED rocVars
    /\ UNCHANGED hitVars

ComputePercentId ==
    /\ call.fn = "computePercentId"
    /\ result = Pending
    /\ result' = computePercentId(call.alignment)
    /\ UNCHANGED call
    /\ UNCHANGED rocVars
    /\ UNCHANGED hitVars

DistancePlot ==
    /\ call.fn = "distancePlot"
    /\ result = Pending
    /\ \E accepts \in BOOLEAN :
          result' = distancePlot(call.record, call.distance, call.colorBy,
                                 call.continents, accepts)
    /\ UNCHANGED call
    /\ UNCHANGED rocVars
    /\ UNCHANGED hitVars

NextNicola ==
    \/ GetBird
    \/ GetCountry
    \/ ComputePercentId
    \/ DistancePlot

SpecNicola == InitNicola /\ [][NextNicola]_vars

----------------------------------------------------------------------------
(* Properties of calculateFrequencies.                                     *)

Schemes == IF pc = "ready" THEN DOMAIN frequencies ELSE {}

\* a <= b for rates
RatLeq(a, b) == a.n * b.d <= b.n * a.d

\* all reads of the most stringent level hit, nothing else does
AllAtTop == [k \in 1..Len(level) |-> IF k = 1 THEN 594 ELSE 0]

\* the frequencies object is as calculateFrequencies returned it
Fresh == pc = "ready" /\ areas = <<>>

\* C1: for every scheme and every index i in 0..21, tp[i] + fn[i] is
\* 594*(i+1) and tn[i] + fp[i] is 594*(22-(i+1)), whatever the counts
PopulationConserved ==
    \A s \in Schemes : \A i \in 0..21 :
        /\ frequencies[s].tps[i + 1] + frequencies[s].fns[i + 1] = 594 * (i + 1)
        /\ frequencies[s].tns[i + 1] + frequencies[s].fps[i + 1] = 594 * (22 - (i + 1))

\* a table with more hits than reads at the most stringent level
PopulationConservedWitness ==
    \E s \in Schemes : frequencies[s].fns[1] < 0

\* C2 as stated: the tprs returned by calculateFrequencies never decrease,
\* tpr[i] <= tpr[i+1] for every i in 0..20
TprsNonDecreasing ==
    Fresh => \A s \in Schemes : \A i \in 0..20 :
                 RatLeq(frequencies[s].tprs[i + 1], frequencies[s].tprs[i + 2])

\* C2 as amended: the cumulative counts tps never decrease, tp[i] <= tp[i+1]
\* for every i in 0..20
TpsNonDecreasing ==
    \A s \in Schemes : \A i \in 0..20 :
        frequencies[s].tps[i + 1] <= frequencies[s].tps[i + 2]

\* the counts grow at some index while the rate falls at another
TpsNonDecreasingWitness ==
    Fresh /\ \E s \in Schemes :
        /\ \E i \in 0..20 : frequencies[s].tps[i + 1] < frequencies[s].tps[i + 2]
        /\ \E i \in 0..20 :
              ~RatLeq(frequencies[s].tprs[i + 1], frequencies[s].tprs[i + 2])

\* C10: for raw = [594, 0, ..., 0] calculateFrequencies yields at index 0
\* tp = 594, fn = 0, tpr = 1.0, fp = 0, tn = 594*21 and fpr = 0.0
AllAtTopFirstEntry ==
    Fresh => \A s \in Schemes :
        frequencies[s].raw = AllAtTop =>
            /\ frequencies[s].tps[1] = 594
            /\ frequencies[s].fns[1] = 0
            /\ frequencies[s].tprs[1] = One
            /\ frequencies[s].fps[1] = 0
            /\ frequencies[s].tns[1] = 594 * 21
            /\ frequencies[s].fprs[1] = Zero

AllAtTopFirstEntryWitness ==
    Fresh /\ \E s \in Schemes : frequencies[s].raw = AllAtTop

\* C15: at an index where fp + tn is 0 both fpr and spc are 0 and nothing
\* is raised; where it is not, fpr is fp/(fp+tn) and spc is tn/(fp+tn)
ZeroDenominatorPolicy ==
    Fresh => \A s \in Schemes : \A i \in 1..22 :
        LET f == frequencies[s]
            d == f.fps[i] + f.tns[i]
        IN  IF d = 0
            THEN f.fprs[i].n = 0 /\ f.spcs[i].n = 0
            ELSE /\ f.fprs[i].n * d = f.fps[i] * f.fprs[i].d
                 /\ f.spcs[i].n * d = f.tns[i] * f.spcs[i].d

\* frequencies came back with a zero divisor at one index and false
\* positives at another
ZeroDenominatorPolicyWitness ==
    Fresh /\ \E s \in Schemes :
        /\ \E i \in 1..22 : frequencies[s].fps[i] + frequencies[s].tns[i] = 0
        /\ \E i \in 1..22 : frequencies[s].fps[i] > 0

FloatOf(r) == DoubleDiv(r.n, r.d)

\* fpr[i] + spc[i] == 1 as Python evaluates it, at position k = i + 1
RatesSumToOne(f, k) ==
    DoubleCmp(DoubleAdd(FloatOf(f.fprs[k]), FloatOf(f.spcs[k])), DoubleOfInt(1)) = 0

\* the last entry has fp = 0, tn = 0, fpr = 0 and spc = 0
LastEntryZero(f) ==
    /\ f.fps[22] = 0
    /\ f.tns[22] = 0
    /\ f.fprs[22].n = 0
    /\ f.spcs[22].n = 0

\* C27 as stated: for every table the last entry has fp = 0, tn = 0,
\* fpr = 0 and spc = 0, and fpr[i] + spc[i] == 1 holds at every index
\* 0..20 but not at index 21
RatesComplementary ==
    Fresh => \A s \in Schemes :
        /\ LastEntryZero(frequencies[s])
        /\ \A i \in 0..20 : RatesSumToOne(frequencies[s], i + 1)
        /\ ~RatesSumToOne(frequencies[s], 22)

\* C27 as amended: for every table the last entry has fp = 0, tn = 0,
\* fpr = 0 and spc = 0, and fpr[i] + spc[i] == 1 holds at every index of
\* 0..20 at which tn[i] >= 0, but not at index 21
RatesComplementaryInRange ==
    Fresh => \A s \in Schemes :
        /\ LastEntryZero(frequencies[s])
        /\ \A i \in 0..20 :
              frequencies[s].tns[i + 1] >= 0 => RatesSumToOne(frequencies[s], i + 1)
        /\ ~RatesSumToOne(frequencies[s], 22)

\* frequencies came back for a table with false positives at an index and
\* with more hits than reads at another
RatesComplementaryInRangeWitness ==
    Fresh /\ \E s \in Schemes :
        /\ \E i \in 0..20 : frequencies[s].fps[i + 1] > 0 /\ frequencies[s].tns[i + 1] > 0
        /\ \E i \in 0..20 : frequencies[s].tns[i + 1] < 0

----------------------------------------------------------------------------
(* Properties of areaUnderCurve and of the consumers sharing one object.   *)

\* C3 as stated: a call of areaUnderCurve leaves every sequence of the
\* caller's frequencies object as it was
AreaUnderCurveLeavesFrequencies ==
    [][AreaUnderCurve => frequencies' = frequencies]_vars

\* C4 as stated: after calculateFrequencies and any calls of the consumers,
\* each scheme's eight sequences all have length 22
SequencesAligned ==
    \A s \in Schemes :
        /\ Len(frequencies[s].fprs) = 22
        /\ Len(frequencies[s].tprs) = 22
        /\ Len(frequencies[s].spcs) = 22
        /\ Len(frequencies[s].tps) = 22
        /\ Len(frequencies[s].tns) = 22
        /\ Len(frequencies[s].fps) = 22
        /\ Len(frequencies[s].fns) = 22
        /\ Len(frequencies[s].raw) = 22

\* C5 as stated: youdenIndex and f1Index return what they return on the
\* object as calculateFrequencies built it, however many calls of
\* areaUnderCurve came before
SelectorsUndisturbed ==
    /\ ret.fn = "youdenIndex" =>
          LET r == youdenIndex(calculateFrequencies(hitDict), order)
          IN  ret.coords = r.coords /\ ret.cutoffs = r.cutoffs
    /\ ret.fn = "f1Index" =>
          LET r == f1Index(calculateFrequencies(hitDict), order)
          IN  ret.coords = r.coords /\ ret.cutoffs = r.cutoffs

ValidCounts(s) == \A k \in 1..Len(frequencies[s].raw) : frequencies[s].raw[k] \in 0..594

AllAtTopAreaOne ==
    \A i \in 1..Len(areas) : \A s \in DOMAIN areas[i] :
        frequencies[s].raw = AllAtTop => AreaCmp(areas[i][s], 1, 1) = 0

AllAtTopAreaOneWitness ==
    \E i \in 1..Len(areas) : \E s \in DOMAIN areas[i] : frequencies[s].raw = AllAtTop

----------------------------------------------------------------------------
(* Properties of youdenIndex and f1Index.                                  *)

\* C16: for n schemes youdenIndex and f1Index each return n coordinate
\* pairs and n indices, every index in 0..21
SelectorShapes ==
    ret.fn \in {"youdenIndex", "f1Index"} =>
        /\ Len(ret.coords) = Cardinality(DOMAIN frequencies)
        /\ Len(ret.cutoffs) = Cardinality(DOMAIN frequencies)
        /\ \A j \in 1..Len(ret.coords) : Len(ret.coords[j]) = 2
        /\ \A j \in 1..Len(ret.cutoffs) : ret.cutoffs[j] \in 0..21

\* youdenIndex returned for two schemes, one with a cutoff past index 0
SelectorShapesWitness ==
    /\ ret.fn = "youdenIndex"
    /\ Len(ret.cutoffs) = 2
    /\ \E j \in 1..Len(ret.cutoffs) : ret.cutoffs[j] > 0

\* spc[i] + tpr[i] - 1 for i in 0..21, at positions 1..22
YoudenValues(f) ==
    List([k \in 1..22 |->
        SignedAdd(SignedAdd(Fix(f.spcs[k]), Fix(f.tprs[k])), SignedNeg(FixOne))])

\* (1-spc[i])^2 + (1-tpr[i])^2 for i in 0..21, at positions 1..22
F1Values(f) ==
    List([k \in 1..22 |->
        LET a == SignedAdd(FixOne, SignedNeg(Fix(f.spcs[k])))
            b == SignedAdd(FixOne, SignedNeg(Fix(f.tprs[k])))
        IN  SignedAdd(SignedMul(a, a), SignedMul(b, b))])

\* C17: for each scheme youdenIndex reports the smallest index at which
\* spc[i] + tpr[i] - 1 is largest over 0..21, and the pair (tpr, fpr) there
YoudenPicksFirstMax ==
    ret.fn = "youdenIndex" =>
        \A j \in 1..Len(order) :
            LET f == frequencies[order[j]]
                v == YoudenValues(f)
                at == ret.cutoffs[j]
            IN  /\ \A i \in 0..21 : SignedCmp(v[i + 1], v[at + 1]) <= 0
                /\ \A i \in 0..(at - 1) : SignedCmp(v[i + 1], v[at + 1]) < 0
                /\ ret.coords[j] = <<f.tprs[at + 1], f.fprs[at + 1]>>

\* youdenIndex returned for a scheme whose largest value is found again at
\* an index after the one reported
YoudenPicksFirstMaxWitness ==
    /\ ret.fn = "youdenIndex"
    /\ \E j \in 1..Len(order) :
          LET v == YoudenValues(frequencies[order[j]])
              at == ret.cutoffs[j]
          IN  \E i \in (at + 1)..21 : SignedCmp(v[i + 1], v[at + 1]) = 0

\* C18: for each scheme f1Index reports the smallest index at which
\* (1-spc[i])^2 + (1-tpr[i])^2 is smallest over 0..21, and the pair
\* (tpr, fpr) there
F1PicksFirstMin ==
    ret.fn = "f1Index" =>
        \A j \in 1..Len(order) :
            LET f == frequencies[order[j]]
                v == F1Values(f)
                at == ret.cutoffs[j]
            IN  /\ \A i \in 0..21 : SignedCmp(v[i + 1], v[at + 1]) >= 0
                /\ \A i \in 0..(at - 1) : SignedCmp(v[i + 1], v[at + 1]) > 0
                /\ ret.coords[j] = <<f.tprs[at + 1], f.fprs[at + 1]>>

\* f1Index returned for a scheme whose smallest value is found again at an
\* index after the one reported
F1PicksFirstMinWitness ==
    /\ ret.fn = "f1Index"
    /\ \E j \in 1..Len(order) :
          LET v == F1Values(frequencies[order[j]])
              at == ret.cutoffs[j]
          IN  \E i \in (at + 1)..21 : SignedCmp(v[i + 1], v[at + 1]) = 0

\* C21: with no scheme at all, youdenIndex and f1Index return two empty
\* lists and areaUnderCurveIndex returns an empty mapping
EmptySchemesEmptyOutputs ==
    (pc = "ready" /\ DOMAIN frequencies = {}) =>
        /\ ret.fn \in {"youdenIndex", "f1Index"} =>
              ret.coords = <<>> /\ ret.cutoffs = <<>>
        /\ ret.fn = "areaUnderCurveIndex" => DOMAIN ret.indexes = {}

\* with no scheme, youdenIndex returned after areaUnderCurveIndex had
EmptySchemesEmptyOutputsWitness ==
    /\ pc = "ready"
    /\ DOMAIN frequencies = {}
    /\ Len(areas) >= 1
    /\ ret.fn = "youdenIndex"

----------------------------------------------------------------------------
(* Properties of countHits.                                                *)

\* the keys of the 22 levels
TheLevels ==
    {"100", "99", "95", "90", "85", "80", "75", "70", "65", "60", "55", "50",
     "45", "40", "35", "30", "25", "20", "15", "10", "5", "0"}

\* C11: the table countHits returns has exactly the 22 levels as keys and
\* no count below 0, and every count is 0 when there were no records
ReturnedTableShape ==
    hpc = "returned" =>
        /\ DOMAIN reads = TheLevels
        /\ Cardinality(DOMAIN reads) = 22
        /\ \A k \in DOMAIN reads : reads[k] >= 0
        /\ records = <<>> => \A k \in DOMAIN reads : reads[k] = 0

\* a table came back after records were counted into it
ReturnedTableShapeWitness ==
    /\ hpc = "returned"
    /\ \E k \in DOMAIN reads : reads[k] = 2

\* the third '|'-field of the query of a record that has one
HasLevel(record) == Len(Split(record.query, "|")) >= 3

LevelOf(record) == Text(Split(record.query, "|")[3])

\* the score countHits reads: the first alignment's first HSP
FirstScore(record) == record.alignments[1].hsps[1].bits

BestScore(record) ==
    CHOOSE b \in {record.alignments[a].hsps[1].bits : a \in DOMAIN record.alignments} :
        \A a \in DOMAIN record.alignments : record.alignments[a].hsps[1].bits <= b

\* the records of level k that satisfy Hit
RecordsOfLevel(k, Hit(_)) ==
    {i \in 1..Len(records) :
        /\ HasLevel(records[i])
        /\ LevelOf(records[i]) = k
        /\ records[i].alignments # <<>>
        /\ Hit(records[i])}

\* C13 as stated: the count returned for a level is the number of records
\* of that level whose highest-scoring alignment, wherever it is listed,
\* scores more than the cutoff
BestHitCounted ==
    hpc = "returned" =>
        \A k \in TheLevels :
            LET Hit(r) == BestScore(r) > cutoff
            IN  reads[k] = Cardinality(RecordsOfLevel(k, Hit))

\* C13 as amended: the count returned for a level is the number of records
\* of that level whose first listed alignment scores more than the cutoff
FirstHitCounted ==
    hpc = "returned" =>
        \A k \in TheLevels :
            LET Hit(r) == FirstScore(r) > cutoff
            IN  reads[k] = Cardinality(RecordsOfLevel(k, Hit))

\* a table came back for a record whose best alignment is listed second and
\* is the only one above the cutoff
FirstHitCountedWitness ==
    /\ hpc = "returned"
    /\ \E i \in 1..Len(records) :
          /\ HasLevel(records[i])
          /\ LevelOf(records[i]) \in TheLevels
          /\ records[i].alignments # <<>>
          /\ BestScore(records[i]) > cutoff
          /\ FirstScore(records[i]) <= cutoff

\* C14 as stated: countHits raises on every record whose level is none of
\* the 22, with or without alignments and whatever its score, so it never
\* returns a table after reading such a record
UnknownLevelRejected ==
    hpc = "returned" =>
        \A i \in 1..Len(records) :
            HasLevel(records[i]) => LevelOf(records[i]) \in TheLevels

----------------------------------------------------------------------------
(* Properties of areaUnderCurveIndex.                                      *)

\* C19: the ranks are a permutation of 0..n-1 over the scheme names, and a
\* scheme with a strictly larger area than another has the smaller rank
RanksFollowArea ==
    ret.fn = "areaUnderCurveIndex" =>
        LET n == Cardinality(DOMAIN ret.integrated)
        IN  /\ DOMAIN ret.indexes = DOMAIN ret.integrated
            /\ {ret.indexes[a] : a \in DOMAIN ret.indexes} = 0..(n - 1)
            /\ \A a, b \in DOMAIN ret.integrated :
                  AreaOrder(ret.integrated[a], ret.integrated[b]) > 0 =>
                      ret.indexes[a] < ret.indexes[b]

\* three schemes were ranked, their areas all different
RanksFollowAreaWitness ==
    /\ ret.fn = "areaUnderCurveIndex"
    /\ Cardinality(DOMAIN ret.integrated) = 3
    /\ \A a, b \in DOMAIN ret.integrated :
          a # b => AreaOrder(ret.integrated[a], ret.integrated[b]) # 0

\* C20 as stated: of two schemes with equal areas the one that comes
\* earlier in the iteration order of the mapping gets the lower rank
TiesEarlierFirst ==
    ret.fn = "areaUnderCurveIndex" =>
        \A i, j \in 1..Len(order) :
            (i < j /\ AreaOrder(ret.integrated[order[i]], ret.integrated[order[j]]) = 0) =>
                ret.indexes[order[i]] < ret.indexes[order[j]]

\* C20 as amended: of two schemes with equal areas the one that comes
\* later in the iteration order of the mapping gets the lower rank
TiesLaterFirst ==
    ret.fn = "areaUnderCurveIndex" =>
        \A i, j \in 1..Len(order) :
            (i < j /\ AreaOrder(ret.integrated[order[i]], ret.integrated[order[j]]) = 0) =>
                ret.indexes[order[i]] > ret.indexes[order[j]]

\* three schemes were ranked, two of them with equal areas and the third
\* with a larger one
TiesLaterFirstWitness ==
    /\ ret.fn = "areaUnderCurveIndex"
    /\ Len(order) = 3
    /\ \E i, j, k \in 1..3 :
          /\ i < j
          /\ AreaOrder(ret.integrated[order[i]], ret.integrated[order[j]]) = 0
          /\ AreaOrder(ret.integrated[order[k]], ret.integrated[order[i]]) > 0

----------------------------------------------------------------------------
(* Properties of _getBird and _getCountry.                                 *)

\* the priority list and the colour of no match of a mode of _getBird
PriorityOf(colorBy) == IF colorBy = "all" THEN AllPriority ELSE AnsCharPriority

DefaultOf(colorBy) == IF colorBy = "all" THEN NEITHER ELSE OTHER_

\* the first category of the mode whose pattern is found, 0 when none is
Category(chars, colorBy) ==
    LET found == Matching(PriorityOf(colorBy), chars)
    IN  IF found = {} THEN 0 ELSE CHOOSE i \in found : \A j \in found : i <= j

\* C24: _getBird returns the colour of the first category, in the priority
\* order of the mode, whose pattern matches the title, and NEITHER (mode
\* 'all') or OTHER (mode 'anseriformes and charadriiformes') when no pattern
\* matches.
FirstCategoryColour ==
    (/\ call.fn = "_getBird"
     /\ call.colorBy \in {"all", "anseriformes and charadriiformes"}
     /\ result # Pending)
        => LET first == Category(call.title, call.colorBy)
           IN  result = IF first = 0 THEN PyStr(DefaultOf(call.colorBy))
                        ELSE PyStr(PriorityOf(call.colorBy)[first].colour)

\* a title that matches two categories of differently coloured kinds was
\* given the colour of the earlier one
FirstCategoryColourWitness ==
    /\ call.fn = "_getBird"
    /\ call.colorBy = "all"
    /\ \E i, j \in Matching(AllPriority, call.title) :
          /\ i < j
          /\ AllPriority[i].colour # AllPriority[j].colour
          /\ result = PyStr(AllPriority[i].colour)

\* the continent lists in the order _getCountry asks them
Continents ==
    << [list |-> EURASIAREGEX, colour |-> EURASIA],
       [list |-> NORTHAMERICAREGEX, colour |-> NORTHAMERICA],
       [list |-> SOUTHAMERICAREGEX, colour |-> SOUTHAMERICA],
       [list |-> AFRICAREGEX, colour |-> AFRICA] >>

\* the colour of the first continent list with the country in it
ContinentColour(country) ==
    LET found == {i \in DOMAIN Continents : country \in Continents[i].list}
    IN  IF found = {} THEN "white"
        ELSE Continents[CHOOSE i \in found : \A j \in found : i <= j].colour

CategoriesDistinctColours ==
    (call.fn = "_getBird" /\ call.colorBy = "all" /\ result # Pending)
        => \A other \in Words :
              Category(other, "all") # Category(call.title, "all")
                  => _getBird(other, "all") # result

----------------------------------------------------------------------------
(* Properties of computePercentId.                                         *)

\* the call is one of computePercentId on two strings of the same length,
\* not empty, and has returned
EqualLengthReturned ==
    /\ call.fn = "computePercentId"
    /\ result # Pending
    /\ Len(call.alignment.hsps[1].query) = Len(call.alignment.hsps[1].sbjct)
    /\ Len(call.alignment.hsps[1].query) > 0

\* L, the length of the two strings, and k, the positions where they agree
AlignedLength == Len(call.alignment.hsps[1].query)

AlignedEqual ==
    Cardinality({i \in 1..AlignedLength :
        call.alignment.hsps[1].query[i] = call.alignment.hsps[1].sbjct[i]})

\* C23, as stated: for two aligned strings of the same length L > 0 that
\* agree at k positions computePercentId returns 100*k/L, the float nearest
\* to that quotient.
PercentIdIsQuotient ==
    EqualLengthReturned
        => /\ result.raised = "none"
           /\ result.identity = DoubleDiv(100 * AlignedEqual, AlignedLength)

\* C23, amended: computePercentId returns the float (k / float(L)) * 100,
\* rounded after the division and again after the product; that is 100.0
\* for identical strings and 0.0 for strings that agree nowhere.
PercentIdTwiceRounded ==
    EqualLengthReturned
        => /\ result.raised = "none"
           /\ result.identity = DoubleMulInt(DoubleDiv(AlignedEqual, AlignedLength), 100)
           /\ AlignedEqual = AlignedLength => result.identity = DoubleOfInt(100)
           /\ AlignedEqual = 0 => result.identity = DoubleOfInt(0)

\* a call whose two roundings end below or above the float nearest to
\* 100*k/L
PercentIdTwiceRoundedWitness ==
    /\ EqualLengthReturned
    /\ result.raised = "none"
    /\ 0 < AlignedEqual
    /\ AlignedEqual < AlignedLength
    /\ result.identity = DoubleMulInt(DoubleDiv(AlignedEqual, AlignedLength), 100)
    /\ DoubleCmp(result.identity, DoubleDiv(100 * AlignedEqual, AlignedLength)) # 0

----------------------------------------------------------------------------
(* Properties of distancePlot.                                             *)

\* the call is one of distancePlot with distance='bit' on a record with an
\* alignment, and it has returned or raised
BitCallEnded ==
    /\ call.fn = "distancePlot"
    /\ result # Pending
    /\ call.distance = "bit"
    /\ Len(call.record.alignments) >= 1

\* the largest bit score of the first HSPs of the record of the call
LargestBits ==
    LET bits == {call.record.alignments[i].hsps[1].bits :
                    i \in DOMAIN call.record.alignments}
    IN  CHOOSE b \in bits : \A c \in bits : c <= b

\* a title of the record has fewer than four fields between bars
ShortOfFields ==
    \E i \in DOMAIN call.record.alignments :
        Len(Split(call.record.alignments[i].title, "|")) < 4

\* C26, as stated: for a record with at least one alignment and
\* distance='bit' distancePlot returns the largest first-HSP bit score of
\* the record and the number of its alignments, in whatever order they are
\* listed.
PlotReturnsLargest ==
    BitCallEnded
        => /\ result.raised = "none"
           /\ result.value = <<LargestBits, Len(call.record.alignments)>>

\* C26, amended: such a call raises IndexError when a title of the record
\* has fewer than four '|'-separated fields; otherwise, unless the plotting
\* library refuses the colour 0 of a short title, it returns the largest
\* first-HSP bit score and the number of alignments, in whatever order the
\* alignments are listed, and leaves the bit scores as they were.
PlotReturnsLargestOfTitled ==
    BitCallEnded
        => /\ ShortOfFields => result.raised = "IndexError"
           /\ ~ShortOfFields => result.raised \in {"none", "ValueError"}
           /\ result.raised = "ValueError" => call.continents
           /\ result.raised = "none"
                => result.value = <<LargestBits, Len(call.record.alignments)>>
           /\ result.record = call.record

\* a record that lists a smaller bit score before the largest one was
\* plotted and the largest one returned
PlotReturnsLargestOfTitledWitness ==
    /\ BitCallEnded
    /\ ~ShortOfFields
    /\ result.raised = "none"
    /\ call.record.alignments[1].hsps[1].bits < LargestBits
    /\ result.value = <<LargestBits, Len(call.record.alignments)>>

====
